---- MODULE Spec2Model ----
(***************************************************************************)
(* Event log and inventory ledger of the mock marketplace platform.        *)
(*                                                                         *)
(* The services are async TypeScript methods over a synchronous SQLite     *)
(* handle (better-sqlite3).  A method runs without interruption from its   *)
(* call up to its first `await`, and again from the resumption of that     *)
(* await to the next one; other calls can run in between.  Every action    *)
(* below is one such uninterrupted segment of a method.                    *)
(***************************************************************************)
EXTENDS Integers, Sequences, FiniteSets, TLC

\* ------------------------------------------------------------------------
\* Bounds of the model
\* ------------------------------------------------------------------------
\* Calls made to restock, reserve, release and adjust.
MaxCalls == 3

\* Calls made to createEvent and replayEvent.
MaxEventCalls == 2

\* Last reading of the clock.
MaxClock == 2

\* Calls made to initializeTeamInventory.
MaxInits == 2

\* Calls made to sendMessage.
MaxMessages == 2

\* Requests one client sends over HTTP.
MaxRequests == 3

\* ------------------------------------------------------------------------
\* Values
\* ------------------------------------------------------------------------
\* SQL NULL / JavaScript null where a row or an object is expected.
NULL == [null |-> TRUE]

Procs == {"p1", "p2"}

Teams == {"t1"}

\* Catalog rows (sku -> initial_stock) seeded into table skus.
SKUS == [s \in {"IT-005", "IT-006"} |-> IF s = "IT-005" THEN 8 ELSE 5]

Skus == DOMAIN SKUS

\* `team-${Date.now()}`, by the reading of the clock.
TeamIds == <<"team-1", "team-2", "team-3", "team-4">>

Keys == (Teams \cup {TeamIds[i] : i \in DOMAIN TeamIds}) \X Skus

\* The record the callers that contend for one record work on.
Contended == Teams \X {"IT-006"}

\* Quantities and deltas the callers pass.
Quantities == {-3, 3, 6}

LedgerOps == {"restock", "reserve", "release", "adjust"}

VARIABLES
  inventory,         \* table inventory: (team_id, sku) -> row or NULL
  inventory_events,  \* table inventory_events, in insertion order
  lpc,               \* per call slot: "idle", "await" (suspended), "done"
  lcall,             \* per call slot: the call in progress
  current,           \* per call slot: the record read by getInventoryItem
  lresult,           \* per call slot: how the call settled
  applied,           \* history: the calls whose UPDATE changed a row
  ncalls,            \* number of calls started
  initialized        \* history: the initializeTeamInventory calls, each
                     \* with the number of UPDATEs applied before it

lvars == <<inventory, inventory_events, lpc, lcall, current, lresult,
           applied, ncalls, initialized>>

VARIABLES
  events,    \* table events, in insertion (rowid) order
  clock,     \* the wall clock read by `new Date()`
  nuuid,     \* number of ids uuidv4() has handed out
  epc,       \* per call slot: "idle", "replay_await", "create_await"
  ecall,     \* per call slot: the replayEvent call in progress
  original,  \* per call slot: `original` of replayEvent
  creating,  \* per call slot: dto, eventId, now, existing of createEvent
  created,   \* history: the createEvent calls that settled
  marked,    \* history: the stored events markAsProcessed was called on
  necalls,   \* number of createEvent and replayEvent calls started
  returned,  \* the call that has just settled and its result, else NoResult
  batch      \* per call slot: teamId, events, the elements still to
             \* create, createdEvents, delayMs and the timer of a
             \* sendOutOfOrderEvents or createDelayedEvents call

evars == <<events, clock, nuuid, epc, ecall, original, creating, created,
           marked, necalls, returned, batch>>

VARIABLES
  messages,    \* table messages, in insertion order
  deliveries,  \* the sendWebhook calls started, each with its state
  log,         \* what sendWebhook and the catch of sendMessage logged
  sent         \* the sendMessage call that has just returned, else NoResult

cvars == <<messages, deliveries, log, sent>>

VARIABLES
  teams,     \* table teams, in insertion (rowid) order
  issued,    \* the tokens AuthService has signed
  setting,   \* the setMode call suspended at its await, else NULL
  lastMode,  \* history: the mode passed to the latest setMode call
  response   \* the latest HTTP request and what the routers answered

tvars == <<teams, issued, setting, lastMode, response>>

VARIABLES
  since,     \* the polling client: the `since` of its next request
  got,       \* the polling client: the ids it was handed, in order
  requests   \* the polling client: the number of requests it made

pvars == <<since, got, requests>>

vars == <<lvars, evars, cvars, tvars, pvars>>

NoCall == [op |-> "none", key |-> <<"", "">>, quantity |-> 0, reason |-> ""]

\* The reason staff give for a manual adjustment.
Reason == "recount"

\* ------------------------------------------------------------------------
\* InventoryService
\* ------------------------------------------------------------------------

\* mapRowToInventory over the SELECT of getInventoryItem: available is the
\* column (i.stock - i.reserved).
\* Variant whose available column is i.stock.
mapRowToInventory_NoReserved(row) ==
  [stock |-> row.stock, reserved |-> row.reserved,
   available |-> row.stock, version |-> row.version]

mapRowToInventory(row) ==
  [stock |-> row.stock, reserved |-> row.reserved,
   available |-> row.stock - row.reserved, version |-> row.version]

\* Variant that gives an empty record for a missing row.
getInventoryItem_Default(key) ==
  IF inventory[key] = NULL
  THEN [stock |-> 0, reserved |-> 0, available |-> 0, version |-> 1]
  ELSE mapRowToInventory(inventory[key])

getInventoryItem(key) ==
  IF inventory[key] = NULL THEN NULL ELSE mapRowToInventory(inventory[key])

\* Variant of the UPDATE whose WHERE clause omits `AND version = ?`.
UpdateMatches_NoVersion(key, version) ==
  inventory[key] # NULL

\* Variant of the UPDATE whose WHERE clause reads `AND version >= ?`.
UpdateMatches_AtLeast(key, version) ==
  inventory[key] # NULL /\ inventory[key].version >= version

\* UPDATE inventory SET ..., version = version + 1
\* WHERE team_id = ? AND sku = ? AND version = ?      (result.changes)
UpdateMatches(key, version) ==
  inventory[key] # NULL /\ inventory[key].version = version

\* Variant of the UPDATE whose SET clause leaves version alone.
UpdateRow_SameVersion(key, stock, reserved) ==
  [inventory EXCEPT ![key] = [stock |-> stock, reserved |-> reserved,
                              version |-> @.version]]

\* Variant of the UPDATE whose WHERE clause omits `AND sku = ?`.
UpdateRow_AllSkus(key, stock, reserved) ==
  [k \in Keys |->
     IF k[1] = key[1] /\ inventory[k] # NULL
     THEN [stock |-> stock, reserved |-> reserved,
           version |-> inventory[k].version + 1]
     ELSE inventory[k]]

\* Variant of the UPDATE that sets reserved = 0.
UpdateRow_ClearsReserved(key, stock, reserved) ==
  [inventory EXCEPT ![key] = [stock |-> stock, reserved |-> 0,
                              version |-> @.version + 1]]

\* UPDATE inventory SET stock = ?, reserved = ?, version = version + 1
\* on the row of key.
UpdateRow(key, stock, reserved) ==
  [inventory EXCEPT ![key] = [stock |-> stock, reserved |-> reserved,
                              version |-> @.version + 1]]

logInventoryEvent(key, type, quantity, previousStock, newStock, by) ==
  Append(inventory_events,
         [key |-> key, type |-> type, quantity |-> quantity,
          previousStock |-> previousStock, newStock |-> newStock, by |-> by])

Settle(p, result) ==
  /\ lpc' = [lpc EXCEPT ![p] = "done"]
  /\ lresult' = [lresult EXCEPT ![p] = result]

Applied(p) ==
  Append(applied, [op |-> lcall[p].op, key |-> lcall[p].key,
                   quantity |-> lcall[p].quantity,
                   read |-> current[p].version, by |-> p])

\* One of restock/reserve/release/adjust up to
\* `await this.getInventoryItem(...)`, which has read the row.
LedgerStart(p, op, key, quantity) ==
  /\ lpc[p] = "idle"
  /\ ncalls < MaxCalls
  /\ lpc' = [lpc EXCEPT ![p] = "await"]
  /\ lcall' = [lcall EXCEPT ![p] =
                 [op |-> op, key |-> key, quantity |-> quantity,
                  reason |-> IF op = "adjust" THEN Reason ELSE ""]]
  /\ current' = [current EXCEPT ![p] = getInventoryItem(key)]
  /\ ncalls' = ncalls + 1
  /\ UNCHANGED <<inventory, inventory_events, lresult, applied,
                 initialized>>

\* A caller invokes one of restock/reserve/release/adjust.
LedgerCall(p, op, key, quantity) ==
  /\ LedgerStart(p, op, key, quantity)
  /\ UNCHANGED <<evars, cvars, tvars, pvars>>

\* restock, from the resumption of the await to its end.
restock(p) ==
  /\ lpc[p] = "await" /\ lcall[p].op = "restock"
  /\ LET key == lcall[p].key
         quantity == lcall[p].quantity
         cur == current[p]
     IN IF cur = NULL
        THEN /\ Settle(p, "NotFound")
             /\ UNCHANGED <<inventory, inventory_events, applied>>
        ELSE LET newStock == cur.stock + quantity
             IN IF ~UpdateMatches(key, cur.version)
                THEN /\ Settle(p, "ConcurrentModification")
                     /\ UNCHANGED <<inventory, inventory_events, applied>>
                ELSE /\ inventory' = UpdateRow(key, newStock,
                                               inventory[key].reserved)
                     /\ inventory_events' =
                          logInventoryEvent(key, "restocked", quantity,
                                            cur.stock, newStock, "staff")
                     /\ applied' = Applied(p)
                     /\ Settle(p, "ok")
  /\ UNCHANGED <<lcall, current, ncalls, initialized>>
  /\ UNCHANGED <<evars, cvars, tvars, pvars>>

\* reserve, from the resumption of the await to its end.
reserve(p) ==
  /\ lpc[p] = "await" /\ lcall[p].op = "reserve"
  /\ LET key == lcall[p].key
         quantity == lcall[p].quantity
         cur == current[p]
     IN IF cur = NULL
        THEN /\ Settle(p, "NotFound")
             /\ UNCHANGED <<inventory, inventory_events, applied>>
        ELSE IF cur.available < quantity
        THEN /\ Settle(p, "false")
             /\ UNCHANGED <<inventory, inventory_events, applied>>
        ELSE LET newReserved == cur.reserved + quantity
             IN IF ~UpdateMatches(key, cur.version)
                THEN /\ Settle(p, "ConcurrentModification")
                     /\ UNCHANGED <<inventory, inventory_events, applied>>
                ELSE /\ inventory' = UpdateRow(key, inventory[key].stock,
                                               newReserved)
                     /\ inventory_events' =
                          logInventoryEvent(key, "reserved", quantity,
                                            cur.stock, cur.stock, "system")
                     /\ applied' = Applied(p)
                     /\ Settle(p, "true")
  /\ UNCHANGED <<lcall, current, ncalls, initialized>>
  /\ UNCHANGED <<evars, cvars, tvars, pvars>>

\* release, from the resumption of the await to its end.  It writes no
\* inventory_events row.
release(p) ==
  /\ lpc[p] = "await" /\ lcall[p].op = "release"
  /\ LET key == lcall[p].key
         quantity == lcall[p].quantity
         cur == current[p]
     IN IF cur = NULL
        THEN /\ Settle(p, "false")
             /\ UNCHANGED <<inventory, applied>>
        ELSE LET newStock == cur.stock - quantity
                 newReserved == cur.reserved - quantity
             IN IF newStock < 0 \/ newReserved < 0
                THEN /\ Settle(p, "InvalidRelease")
                     /\ UNCHANGED <<inventory, applied>>
                ELSE IF ~UpdateMatches(key, cur.version)
                THEN /\ Settle(p, "ConcurrentModification")
                     /\ UNCHANGED <<inventory, applied>>
                ELSE /\ inventory' = UpdateRow(key, newStock, newReserved)
                     /\ applied' = Applied(p)
                     /\ Settle(p, "true")
  /\ UNCHANGED <<inventory_events, lcall, current, ncalls, initialized>>
  /\ UNCHANGED <<evars, cvars, tvars, pvars>>

\* Variant of adjust without the `newStock < 0` check.
adjust_NoCheck(p) ==
  /\ lpc[p] = "await" /\ lcall[p].op = "adjust"
  /\ LET key == lcall[p].key
         quantity == lcall[p].quantity
         cur == current[p]
     IN IF cur = NULL
        THEN /\ Settle(p, "NotFound")
             /\ UNCHANGED <<inventory, inventory_events, applied>>
        ELSE LET newStock == cur.stock + quantity
             IN IF ~UpdateMatches(key, cur.version)
                THEN /\ Settle(p, "ConcurrentModification")
                     /\ UNCHANGED <<inventory, inventory_events, applied>>
                ELSE /\ inventory' = UpdateRow(key, newStock,
                                               inventory[key].reserved)
                     /\ inventory_events' =
                          logInventoryEvent(key, "adjusted", quantity,
                                            cur.stock, newStock, "staff")
                     /\ applied' = Applied(p)
                     /\ Settle(p, "ok")
  /\ UNCHANGED <<lcall, current, ncalls, initialized>>
  /\ UNCHANGED <<evars, cvars, tvars, pvars>>

\* adjust, from the resumption of the await to its end.
adjust(p) ==
  /\ lpc[p] = "await" /\ lcall[p].op = "adjust"
  /\ LET key == lcall[p].key
         quantity == lcall[p].quantity
         cur == current[p]
     IN IF cur = NULL
        THEN /\ Settle(p, "NotFound")
             /\ UNCHANGED <<inventory, inventory_events, applied>>
        ELSE LET newStock == cur.stock + quantity
             IN IF newStock < 0
                THEN /\ Settle(p, "NegativeStock")
                     /\ UNCHANGED <<inventory, inventory_events, applied>>
                ELSE IF ~UpdateMatches(key, cur.version)
                THEN /\ Settle(p, "ConcurrentModification")
                     /\ UNCHANGED <<inventory, inventory_events, applied>>
                ELSE /\ inventory' = UpdateRow(key, newStock,
                                               inventory[key].reserved)
                     /\ inventory_events' =
                          logInventoryEvent(key, "adjusted", quantity,
                                            cur.stock, newStock, "staff")
                     /\ applied' = Applied(p)
                     /\ Settle(p, "ok")
  /\ UNCHANGED <<lcall, current, ncalls, initialized>>
  /\ UNCHANGED <<evars, cvars, tvars, pvars>>

\* Variant with INSERT OR REPLACE.
InsertOrIgnore_Replace(teamId) ==
  [k \in Keys |->
     IF k[1] = teamId
     THEN [stock |-> SKUS[k[2]], reserved |-> 0, version |-> 1]
     ELSE inventory[k]]

\* Table inventory after INSERT OR IGNORE INTO inventory of one row per
\* catalog sku: a row whose (team_id, sku) is already there is skipped.
InsertOrIgnore(teamId) ==
  [k \in Keys |->
     IF k[1] = teamId /\ inventory[k] = NULL
     THEN [stock |-> SKUS[k[2]], reserved |-> 0, version |-> 1]
     ELSE inventory[k]]

\* initializeTeamInventory.  The method has no await, so it is one segment.
initializeTeamInventory(teamId) ==
  /\ Len(initialized) < MaxInits
  /\ inventory' = InsertOrIgnore(teamId)
  /\ initialized' = Append(initialized, [teamId |-> teamId,
                                         after |-> Len(applied)])
  /\ UNCHANGED <<inventory_events, lpc, lcall, current, lresult, applied,
                 ncalls>>
  /\ UNCHANGED <<evars, cvars, tvars, pvars>>

\* restock, reserve or adjust from the resumption of its await through its
\* UPDATE, which SQLite commits on its own (no db.transaction around the
\* two statements); then stmt.run of logInventoryEvent throws, or the
\* process stops before it.
logInventoryEventThrows(p) ==
  /\ lpc[p] = "await" /\ lcall[p].op \in {"restock", "reserve", "adjust"}
  /\ current[p] # NULL
  /\ LET key == lcall[p].key
         quantity == lcall[p].quantity
         cur == current[p]
     IN /\ lcall[p].op = "reserve" => ~(cur.available < quantity)
        /\ lcall[p].op = "adjust" => ~(cur.stock + quantity < 0)
        /\ UpdateMatches(key, cur.version)
        /\ inventory' =
             IF lcall[p].op = "reserve"
             THEN UpdateRow(key, inventory[key].stock, cur.reserved + quantity)
             ELSE UpdateRow(key, cur.stock + quantity, inventory[key].reserved)
  /\ applied' = Applied(p)
  /\ Settle(p, "InsertFailed")
  /\ UNCHANGED <<inventory_events, lcall, current, ncalls, initialized>>
  /\ UNCHANGED <<evars, cvars, tvars, pvars>>

\* The caller has consumed the settled promise; the slot is free again.
LedgerReturn(p) ==
  /\ lpc[p] = "done"
  /\ lpc' = [lpc EXCEPT ![p] = "idle"]
  /\ lcall' = [lcall EXCEPT ![p] = NoCall]
  /\ current' = [current EXCEPT ![p] = NULL]
  /\ lresult' = [lresult EXCEPT ![p] = "none"]
  /\ UNCHANGED <<inventory, inventory_events, applied, ncalls,
                 initialized>>
  /\ UNCHANGED <<evars, cvars, tvars, pvars>>

InitLedger ==
  /\ inventory = [k \in Keys |-> NULL]
  /\ inventory_events = <<>>
  /\ lpc = [p \in Procs |-> "idle"]
  /\ lcall = [p \in Procs |-> NoCall]
  /\ current = [p \in Procs |-> NULL]
  /\ lresult = [p \in Procs |-> "none"]
  /\ applied = <<>>
  /\ ncalls = 0
  /\ initialized = <<>>

\* ------------------------------------------------------------------------
\* EventService
\* ------------------------------------------------------------------------

\* JavaScript undefined.
UNDEFINED == [undefined |-> TRUE]

\* A string.  Str(n) with n a number is the ISO-8601 text toISOString()
\* gives for instant n; these texts compare as their instants do.
Str(v) == [str |-> v]

\* Event ids are the numbers 1, 2, ... in the order uuidv4() returned them;
\* 0 is an id that was never handed out ('nonexistent-id').
NoSuchId == 0

EventTypes == {"order.created", "event.delayed"}

\* The payload a caller sends with each type; the second has a property
\* whose value is undefined.
PayloadOf ==
  [type \in EventTypes |->
     IF type = "order.created"
     THEN [orderId |-> Str("ORD-001")]
     ELSE [orderId |-> Str("ORD-002"), note |-> UNDEFINED]]

\* type EventType.
EventType ==
  {"order.created", "order.paid", "order.cancelled",
   "order.refund_requested", "order.dispute_opened", "inventory.restocked",
   "inventory.shortage_detected", "inventory.manual_adjusted",
   "event.duplicate_sent", "event.delayed", "event.out_of_order"}

\* The object {}.
EmptyObject == [k \in {} |-> UNDEFINED]

\* createEvent arguments with each event type in turn and payload {}.
TypeDTOs ==
  { [teamId |-> "test-team", type |-> type, payload |-> EmptyObject,
     metadata |-> UNDEFINED] : type \in EventType }

\* Instants callers pass as delayedUntil / delayUntil: one before the
\* clock's first reading and one the clock reaches.
PastTime == 0

SoonTime == 2

\* The arguments callers pass to createEvent: an event that is not
\* delayed, one delayed to a past instant, one delayed to a coming instant.
CreateEventDTOs ==
  { [teamId |-> team, type |-> "order.created",
     payload |-> PayloadOf["order.created"], metadata |-> UNDEFINED] :
       team \in Teams }
  \cup
  { [teamId |-> team, type |-> "order.created",
     payload |-> PayloadOf["order.created"],
     metadata |-> [delayedUntil |-> Str(PastTime)]] : team \in Teams }
  \cup
  { [teamId |-> team, type |-> "event.delayed",
     payload |-> PayloadOf["event.delayed"],
     metadata |-> [delayedUntil |-> Str(SoonTime)]] : team \in Teams }

\* The delayUntil argument of replayEvent.
DelayUntils == {UNDEFINED, Str(SoonTime)}

\* obj?.key
Get(obj, key) ==
  IF obj = UNDEFINED \/ obj = NULL THEN UNDEFINED
  ELSE IF key \in DOMAIN obj THEN obj[key] ELSE UNDEFINED

\* JSON.stringify of an object: properties whose value is undefined are
\* left out of the text.
JSON_stringify(obj) ==
  [k \in {j \in DOMAIN obj : obj[j] # UNDEFINED} |-> obj[k]]

\* JSON.parse of a text JSON_stringify produced.
JSON_parse(text) == text

\* SQLite json_extract(column, '$.key'): NULL for a NULL column and for a
\* missing key.
json_extract(column, key) ==
  IF column = NULL THEN NULL
  ELSE IF key \in DOMAIN column THEN column[key] ELSE NULL

mapRowToEvent(row) ==
  [id |-> row.id, teamId |-> row.team_id, type |-> row.type,
   payload |-> JSON_parse(row.payload), createdAt |-> row.created_at,
   processedAt |-> row.processed_at,
   metadata |-> IF row.metadata # NULL THEN JSON_parse(row.metadata)
                ELSE UNDEFINED]

\* typeof v === 'string', typeof v === 'number', Array.isArray(v), and
\* typeof v === 'object' && v !== null.  A number n is [num |-> n], an
\* array is [array |-> its elements in order].
IsString(v) == DOMAIN v = {"str"}

IsNumber(v) == DOMAIN v = {"num"}

IsArray(v) == DOMAIN v = {"array"}

IsObject(v) ==
  v # NULL /\ v # UNDEFINED /\ ~IsString(v) /\ ~IsNumber(v)

validateOrderPayload(payload) ==
  /\ IsObject(payload)
  /\ IsString(Get(payload, "orderId"))
  /\ IsArray(Get(payload, "items"))
  /\ \A i \in DOMAIN payload.items.array :
       /\ IsString(Get(payload.items.array[i], "sku"))
       /\ IsNumber(Get(payload.items.array[i], "qty"))

validateOrderCancellationPayload(payload) ==
  /\ IsObject(payload)
  /\ IsString(Get(payload, "orderId"))

validateInventoryPayload(payload) ==
  /\ IsObject(payload)
  /\ IsString(Get(payload, "sku"))
  /\ IsNumber(Get(payload, "quantity"))

validateEventPayload(type, payload) ==
  CASE type \in {"order.created", "order.paid"} ->
         validateOrderPayload(payload)
    [] type \in {"order.cancelled", "order.refund_requested",
                 "order.dispute_opened"} ->
         validateOrderCancellationPayload(payload)
    [] type \in {"inventory.restocked", "inventory.manual_adjusted"} ->
         validateInventoryPayload(payload)
    [] OTHER -> TRUE

\* The ids a caller can pass: those of stored events and one of none.
KnownIds == {events[i].id : i \in DOMAIN events} \cup {NoSuchId}

RowsWithId(id) == {i \in DOMAIN events : events[i].id = id}

\* Variant of the SELECT without its WHERE clause: the first stored row.
getEventById_First(eventId) ==
  IF events = <<>> THEN NULL ELSE mapRowToEvent(events[1])

getEventById(eventId) ==
  IF RowsWithId(eventId) = {} THEN NULL
  ELSE mapRowToEvent(events[CHOOSE i \in RowsWithId(eventId) : TRUE])

\* uuidv4(): an id no earlier call returned.
uuidv4 == nuuid + 1

\* The row createEvent inserts.
InsertedRow(eventId, dto, now) ==
  [id |-> eventId, team_id |-> dto.teamId, type |-> dto.type,
   payload |-> JSON_stringify(dto.payload), created_at |-> now,
   processed_at |-> NULL,
   metadata |-> IF dto.metadata # UNDEFINED
                THEN JSON_stringify(dto.metadata) ELSE NULL]

\* Variant returning the first event type whatever was asked.
ReturnedEvent_FirstType(eventId, dto, now) ==
  [id |-> eventId, teamId |-> dto.teamId, type |-> "order.created",
   payload |-> dto.payload, createdAt |-> now, metadata |-> dto.metadata]

\* The Event createEvent returns for a new event.
ReturnedEvent(eventId, dto, now) ==
  [id |-> eventId, teamId |-> dto.teamId, type |-> dto.type,
   payload |-> dto.payload, createdAt |-> now, metadata |-> dto.metadata]

NoFrame == [dto |-> NULL, eventId |-> NoSuchId, now |-> 0, existing |-> NULL]

NoResult == [op |-> "none"]

NoECall == [op |-> "none", eventId |-> NoSuchId, delayUntil |-> UNDEFINED]

BatchOps == {"sendOutOfOrderEvents", "createDelayedEvents"}

NoBatch == [teamId |-> "", events |-> <<>>, todo |-> <<>>, done |-> <<>>,
            delayMs |-> 0, wake |-> 0]

\* The columns of table events declared NOT NULL that createEvent takes
\* from its dto; a property the dto lacks is bound as NULL.
NotNullColumns == {"teamId", "type", "payload"}

\* A new call runs in the first free call slot.
FirstFree(p) == p = "p1" \/ epc["p1"] # "idle"

\* createEvent from its first line to `await this.getEventById(eventId)`.
createEventSync(p, dto) ==
  /\ creating' = [creating EXCEPT ![p] =
                    [dto |-> dto, eventId |-> uuidv4, now |-> clock,
                     existing |-> getEventById(uuidv4)]]
  /\ nuuid' = nuuid + 1
  /\ epc' = [epc EXCEPT ![p] = "create_await"]

\* createEvent(dto) called in a free call slot, up to its await.
createEventStart(p, dto) ==
  /\ epc[p] = "idle" /\ FirstFree(p)
  /\ necalls < MaxEventCalls
  /\ necalls' = necalls + 1
  /\ createEventSync(p, dto)
  /\ ecall' = [ecall EXCEPT ![p] = [NoECall EXCEPT !.op = "createEvent"]]
  /\ returned' = NoResult
  /\ UNCHANGED <<events, clock, original, created, marked, batch>>

\* A caller invokes createEvent(dto).
createEventCall(p, dto) ==
  /\ createEventStart(p, dto)
  /\ UNCHANGED <<lvars, cvars, tvars, pvars>>

\* createEvent from the resumption of its await to its end.  The INSERT
\* throws when a NOT NULL column gets no value.  The promise of the call
\* that led here settles, except that a batch call whose createEvent
\* succeeded goes on with its loop.
createEvent(p) ==
  /\ epc[p] = "create_await"
  /\ LET f == creating[p]
         ok == f.existing # NULL \/ NotNullColumns \subseteq DOMAIN f.dto
         ret == IF ~ok THEN [error |-> "ConstraintFailed"]
                ELSE IF f.existing # NULL THEN f.existing
                ELSE ReturnedEvent(f.eventId, f.dto, f.now)
     IN /\ events' = IF f.existing # NULL \/ ~ok THEN events
                     ELSE Append(events, InsertedRow(f.eventId, f.dto, f.now))
        /\ f.existing = NULL => RowsWithId(f.eventId) = {}
        /\ created' = IF ok THEN Append(created, [dto |-> f.dto, ret |-> ret])
                      ELSE created
        /\ IF ok /\ ecall[p].op \in BatchOps
           THEN /\ batch' = [batch EXCEPT ![p].done = Append(@, ret)]
                /\ epc' = [epc EXCEPT ![p] = "batch_await"]
                /\ returned' = NoResult
                /\ UNCHANGED ecall
           ELSE /\ returned' = [op |-> ecall[p].op, by |-> p,
                                args |-> ecall[p], value |-> ret]
                /\ epc' = [epc EXCEPT ![p] = "idle"]
                /\ ecall' = [ecall EXCEPT ![p] = NoECall]
                /\ batch' = [batch EXCEPT ![p] = NoBatch]
  /\ original' = [original EXCEPT ![p] = NULL]
  /\ creating' = [creating EXCEPT ![p] = NoFrame]
  /\ UNCHANGED <<clock, nuuid, marked, necalls>>
  /\ UNCHANGED <<lvars, cvars, tvars, pvars>>

\* Variant in which suspended calls resume in any order.
Oldest_Any(p) == TRUE

\* `await this.getEventById(eventId)` suspends createEvent for the same
\* number of microtask turns in every call, and the microtask queue is
\* first in, first out: of the suspended calls the one that drew its id
\* first resumes first.
Oldest(p) ==
  \A q \in Procs :
    epc[q] = "create_await" => creating[p].eventId <= creating[q].eventId

\* A caller invokes replayEvent(eventId, delayUntil): up to
\* `await this.getEventById(eventId)`.
replayEventCall(p, eventId, delayUntil) ==
  /\ epc[p] = "idle" /\ FirstFree(p)
  /\ necalls < MaxEventCalls
  /\ necalls' = necalls + 1
  /\ ecall' = [ecall EXCEPT ![p] = [op |-> "replayEvent",
                                    eventId |-> eventId,
                                    delayUntil |-> delayUntil]]
  /\ original' = [original EXCEPT ![p] = getEventById(eventId)]
  /\ epc' = [epc EXCEPT ![p] = "replay_await"]
  /\ returned' = NoResult
  /\ UNCHANGED <<events, clock, nuuid, creating, created, marked>>
  /\ UNCHANGED <<batch, lvars, cvars, tvars, pvars>>

\* Variant of the replay dto that leaves delayedUntil out.
ReplayDTO_NoDelay(orig, eventId, delayUntil) ==
  [teamId |-> orig.teamId, type |-> orig.type, payload |-> orig.payload,
   metadata |-> [replayOf |-> Str(eventId)]]

\* The dto replayEvent hands to createEvent.
ReplayDTO(orig, eventId, delayUntil) ==
  [teamId |-> orig.teamId, type |-> orig.type, payload |-> orig.payload,
   metadata |-> [replayOf |-> Str(eventId), delayedUntil |-> delayUntil]]

\* replayEvent from the resumption of its await: it throws, or runs
\* createEvent up to the await in there.
replayEvent(p) ==
  /\ epc[p] = "replay_await"
  /\ IF original[p] = NULL
     THEN /\ epc' = [epc EXCEPT ![p] = "idle"]
          /\ returned' = [op |-> "replayEvent", by |-> p, args |-> ecall[p],
                          value |-> [error |-> "NotFound"]]
          /\ ecall' = [ecall EXCEPT ![p] = NoECall]
          /\ UNCHANGED <<creating, nuuid, original>>
     ELSE /\ createEventSync(p, ReplayDTO(original[p], ecall[p].eventId,
                                          ecall[p].delayUntil))
          /\ returned' = NoResult
          /\ UNCHANGED <<ecall, original>>
  /\ UNCHANGED <<events, clock, created, marked, necalls>>
  /\ UNCHANGED <<batch, lvars, cvars, tvars, pvars>>

\* A caller invokes sendDuplicateEvent(eventId): up to
\* `await this.getEventById(eventId)`.
sendDuplicateEventCall(p, eventId) ==
  /\ epc[p] = "idle" /\ FirstFree(p)
  /\ necalls < MaxEventCalls
  /\ necalls' = necalls + 1
  /\ ecall' = [ecall EXCEPT ![p] = [op |-> "sendDuplicateEvent",
                                    eventId |-> eventId,
                                    delayUntil |-> UNDEFINED]]
  /\ original' = [original EXCEPT ![p] = getEventById(eventId)]
  /\ epc' = [epc EXCEPT ![p] = "duplicate_await"]
  /\ returned' = NoResult
  /\ UNCHANGED <<events, clock, nuuid, creating, created, marked>>
  /\ UNCHANGED <<batch, lvars, cvars, tvars, pvars>>

\* sendDuplicateEvent from the resumption of its await: it throws, or
\* returns `original`.
sendDuplicateEvent(p) ==
  /\ epc[p] = "duplicate_await"
  /\ returned' = [op |-> "sendDuplicateEvent", by |-> p, args |-> ecall[p],
                  value |-> IF original[p] = NULL
                            THEN [error |-> "NotFound"]
                            ELSE original[p]]
  /\ epc' = [epc EXCEPT ![p] = "idle"]
  /\ ecall' = [ecall EXCEPT ![p] = NoECall]
  /\ original' = [original EXCEPT ![p] = NULL]
  /\ UNCHANGED <<events, clock, nuuid, creating, created, marked, necalls>>
  /\ UNCHANGED <<batch, lvars, cvars, tvars, pvars>>

\* {...obj}: the own properties of obj, none for undefined.
Spread(obj) ==
  IF obj = UNDEFINED \/ obj = NULL THEN [k \in {} |-> UNDEFINED] ELSE obj

\* {...a, ...b}
Assign(a, b) ==
  [k \in DOMAIN a \cup DOMAIN b |-> IF k \in DOMAIN b THEN b[k] ELSE a[k]]

\* The elements callers put in the events array of a batch; each names a
\* team of its own.  One has no metadata, one has metadata, one has no
\* type.
PlainElement ==
  [teamId |-> "t0", type |-> "order.created",
   payload |-> PayloadOf["order.created"]]

TaggedElement ==
  [teamId |-> "t0", type |-> "event.delayed",
   payload |-> PayloadOf["event.delayed"],
   metadata |-> [correlationId |-> Str("corr-123")]]

UntypedElement ==
  [teamId |-> "t0", payload |-> PayloadOf["order.created"]]

\* The events arrays callers pass.
Batches ==
  { <<PlainElement, TaggedElement>>,
    <<PlainElement, UntypedElement>>,
    <<TaggedElement, UntypedElement>> }

\* [...events].sort(() => Math.random() - 0.5): some rearrangement.
Shuffled(evs) ==
  {[i \in DOMAIN evs |-> evs[f[i]]] : f \in Permutations(DOMAIN evs)}

\* Variant that leaves outOfOrder out of the metadata.
OutOfOrderDTO_Plain(event, teamId) ==
  Assign(Spread(event),
         [teamId |-> teamId,
          metadata |-> Spread(Get(event, "metadata"))])

\* The dto sendOutOfOrderEvents hands to createEvent.
OutOfOrderDTO(event, teamId) ==
  Assign(Spread(event),
         [teamId |-> teamId,
          metadata |-> Assign(Spread(Get(event, "metadata")),
                              [outOfOrder |-> Str("true")])])

\* A caller invokes sendOutOfOrderEvents(teamId, evs): the shuffle, and the
\* first createEvent up to its await.
sendOutOfOrderEventsCall(p, teamId, evs) ==
  /\ epc[p] = "idle" /\ FirstFree(p)
  /\ necalls < MaxEventCalls
  /\ necalls' = necalls + 1
  /\ \E shuffled \in Shuffled(evs) :
       IF shuffled = <<>>
       THEN /\ returned' = [op |-> "sendOutOfOrderEvents", by |-> p,
                            args |-> [teamId |-> teamId, events |-> evs],
                            value |-> [array |-> <<>>]]
            /\ UNCHANGED <<epc, ecall, creating, nuuid, batch>>
       ELSE /\ createEventSync(p, OutOfOrderDTO(Head(shuffled), teamId))
            /\ ecall' = [ecall EXCEPT ![p] =
                           [NoECall EXCEPT !.op = "sendOutOfOrderEvents"]]
            /\ batch' = [batch EXCEPT ![p] =
                           [NoBatch EXCEPT !.teamId = teamId, !.events = evs,
                                           !.todo = Tail(shuffled)]]
            /\ returned' = NoResult
  /\ UNCHANGED <<events, clock, original, created, marked>>
  /\ UNCHANGED <<lvars, cvars, tvars, pvars>>

\* sendOutOfOrderEvents from the resumption of `await this.createEvent`:
\* the next createEvent up to its await, or the return.
sendOutOfOrderEvents(p) ==
  /\ epc[p] = "batch_await" /\ ecall[p].op = "sendOutOfOrderEvents"
  /\ IF batch[p].todo = <<>>
     THEN /\ returned' = [op |-> "sendOutOfOrderEvents", by |-> p,
                          args |-> [teamId |-> batch[p].teamId,
                                    events |-> batch[p].events],
                          value |-> [array |-> batch[p].done]]
          /\ epc' = [epc EXCEPT ![p] = "idle"]
          /\ ecall' = [ecall EXCEPT ![p] = NoECall]
          /\ batch' = [batch EXCEPT ![p] = NoBatch]
          /\ UNCHANGED <<creating, nuuid>>
     ELSE /\ createEventSync(p, OutOfOrderDTO(Head(batch[p].todo),
                                              batch[p].teamId))
          /\ batch' = [batch EXCEPT ![p].todo = Tail(@)]
          /\ returned' = NoResult
          /\ UNCHANGED ecall
  /\ UNCHANGED <<events, clock, original, created, marked, necalls>>
  /\ UNCHANGED <<lvars, cvars, tvars, pvars>>

\* The clock counts seconds: the pause `setTimeout(resolve, 1000)` of
\* createDelayedEvents.
Pause == 1

\* The delayMs arguments callers pass, in seconds.
Delays == {0, 1}

\* The events arrays callers pass to createDelayedEvents.
DelayedBatches ==
  { <<TaggedElement>>, <<PlainElement, TaggedElement>> }

\* Variant whose delayedUntil is `new Date(Date.now())`.
DelayedDTO_Now(event, teamId, now, delayMs) ==
  Assign(Spread(event),
         [teamId |-> teamId,
          metadata |-> Assign(Spread(Get(event, "metadata")),
                              [delayedUntil |-> Str(now)])])

\* The dto createDelayedEvents hands to createEvent, with
\* delayedUntil = new Date(Date.now() + delayMs).toISOString().
DelayedDTO(event, teamId, now, delayMs) ==
  Assign(Spread(event),
         [teamId |-> teamId,
          metadata |-> Assign(Spread(Get(event, "metadata")),
                              [delayedUntil |-> Str(now + delayMs)])])

\* A caller invokes createDelayedEvents(teamId, evs, delayMs): up to the
\* await in the first createEvent.
createDelayedEventsCall(p, teamId, evs, delayMs) ==
  /\ epc[p] = "idle" /\ FirstFree(p)
  /\ necalls < MaxEventCalls
  /\ necalls' = necalls + 1
  /\ IF evs = <<>>
     THEN /\ returned' = [op |-> "createDelayedEvents", by |-> p,
                          args |-> [teamId |-> teamId, events |-> evs,
                                    delayMs |-> delayMs],
                          value |-> [array |-> <<>>]]
          /\ UNCHANGED <<epc, ecall, creating, nuuid, batch>>
     ELSE /\ createEventSync(p, DelayedDTO(Head(evs), teamId, clock, delayMs))
          /\ ecall' = [ecall EXCEPT ![p] =
                         [NoECall EXCEPT !.op = "createDelayedEvents"]]
          /\ batch' = [batch EXCEPT ![p] =
                         [NoBatch EXCEPT !.teamId = teamId, !.events = evs,
                                         !.todo = Tail(evs),
                                         !.delayMs = delayMs]]
          /\ returned' = NoResult
  /\ UNCHANGED <<events, clock, original, created, marked>>
  /\ UNCHANGED <<lvars, cvars, tvars, pvars>>

\* createDelayedEvents from the resumption of `await this.createEvent` to
\* `await new Promise(resolve => setTimeout(resolve, 1000))`.
createDelayedEventsPause(p) ==
  /\ epc[p] = "batch_await" /\ ecall[p].op = "createDelayedEvents"
  /\ epc' = [epc EXCEPT ![p] = "pause"]
  /\ batch' = [batch EXCEPT ![p].wake = clock + Pause]
  /\ returned' = NoResult
  /\ UNCHANGED <<events, clock, nuuid, ecall, original, creating, created,
                 marked, necalls>>
  /\ UNCHANGED <<lvars, cvars, tvars, pvars>>

\* createDelayedEvents once the timer has fired: the next createEvent up
\* to its await, or the return.
createDelayedEvents(p) ==
  /\ epc[p] = "pause" /\ ecall[p].op = "createDelayedEvents"
  /\ clock >= batch[p].wake
  /\ IF batch[p].todo = <<>>
     THEN /\ returned' = [op |-> "createDelayedEvents", by |-> p,
                          args |-> [teamId |-> batch[p].teamId,
                                    events |-> batch[p].events,
                                    delayMs |-> batch[p].delayMs],
                          value |-> [array |-> batch[p].done]]
          /\ epc' = [epc EXCEPT ![p] = "idle"]
          /\ ecall' = [ecall EXCEPT ![p] = NoECall]
          /\ batch' = [batch EXCEPT ![p] = NoBatch]
          /\ UNCHANGED <<creating, nuuid>>
     ELSE /\ createEventSync(p, DelayedDTO(Head(batch[p].todo),
                                           batch[p].teamId, clock,
                                           batch[p].delayMs))
          /\ batch' = [batch EXCEPT ![p].todo = Tail(@)]
          /\ returned' = NoResult
          /\ UNCHANGED ecall
  /\ UNCHANGED <<events, clock, original, created, marked, necalls>>
  /\ UNCHANGED <<lvars, cvars, tvars, pvars>>

\* Variant of the UPDATE that also rewrites created_at.
SetProcessed_Touch(row, now) ==
  [row EXCEPT !.processed_at = Str(now), !.created_at = now]

\* UPDATE events SET processed_at = ?      (one matching row)
SetProcessed(row, now) ==
  [row EXCEPT !.processed_at = Str(now)]

\* markAsProcessed(eventId); it has no await.
markAsProcessed(eventId) ==
  /\ events' = [i \in DOMAIN events |->
                  IF events[i].id = eventId
                  THEN SetProcessed(events[i], clock) ELSE events[i]]
  /\ marked' = marked \cup {events[i].id : i \in RowsWithId(eventId)}
  /\ returned' = [op |-> "markAsProcessed", args |-> eventId]
  /\ UNCHANGED <<clock, nuuid, epc, ecall, original, creating, created,
                 necalls>>
  /\ UNCHANGED <<batch, lvars, cvars, tvars, pvars>>

\* Variant of the WHERE clause with `<` for `<=`.
IsDue_Strict(row, now) ==
  /\ json_extract(row.metadata, "delayedUntil") # NULL
  /\ json_extract(row.metadata, "delayedUntil").str < now
  /\ row.processed_at = NULL

\* Variant of the WHERE clause without `processed_at IS NULL`.
IsDue_IgnoresProcessed(row, now) ==
  /\ json_extract(row.metadata, "delayedUntil") # NULL
  /\ json_extract(row.metadata, "delayedUntil").str <= now

\* The WHERE clause of getDueEvents.
IsDue(row, now) ==
  /\ json_extract(row.metadata, "delayedUntil") # NULL
  /\ json_extract(row.metadata, "delayedUntil").str <= now
  /\ row.processed_at = NULL

\* The enumerations of the rows in S that ORDER BY created_at ASC allows
\* (rows with equal created_at in any order).
OrderedByCreatedAt(S) ==
  {s \in [1..Cardinality(S) -> S] :
     /\ \A i, j \in DOMAIN s : i # j => s[i] # s[j]
     /\ \A i, j \in DOMAIN s :
          i < j => events[s[i]].created_at <= events[s[j]].created_at}

\* getDueEvents(); it has no await.
getDueEvents ==
  /\ \E s \in OrderedByCreatedAt({i \in DOMAIN events :
                                    IsDue(events[i], clock)}) :
       returned' = [op |-> "getDueEvents",
                    value |-> [i \in DOMAIN s |-> mapRowToEvent(events[s[i]])]]
  /\ UNCHANGED <<events, clock, nuuid, epc, ecall, original, creating,
                 created, marked, necalls>>
  /\ UNCHANGED <<batch, lvars, cvars, tvars, pvars>>

\* The teams whose events are queried, and the createEvent arguments that
\* fill the log for them: two teams, two event types.
QueryTeams == {"t1", "t2"}

QueryDTOs ==
  { [teamId |-> team, type |-> type, payload |-> PayloadOf[type],
     metadata |-> UNDEFINED] : team \in QueryTeams, type \in EventTypes }

\* JavaScript truthiness of an optional number or non-empty string.
Truthy(v) == v # UNDEFINED /\ v # NULL /\ v # [num |-> 0]

\* The filters callers pass to getEvents.
EventFilters ==
  [type : {UNDEFINED, Str("order.created")},
   since : {UNDEFINED, Str(1)},
   limit : {UNDEFINED, [num |-> 0], [num |-> 1]}]

\* Variant of the WHERE clause with `created_at >= ?`.
WhereEvents_AtLeast(row, teamId, filters) ==
  /\ row.team_id = teamId
  /\ Truthy(filters.type) => row.type = filters.type.str
  /\ Truthy(filters.since) => row.created_at >= filters.since.str

\* The WHERE clause getEvents builds.
WhereEvents(row, teamId, filters) ==
  /\ row.team_id = teamId
  /\ Truthy(filters.type) => row.type = filters.type.str
  /\ Truthy(filters.since) => row.created_at > filters.since.str

\* The enumerations of the rows in S that ORDER BY created_at DESC allows.
OrderedByCreatedAtDesc(S) ==
  {s \in [1..Cardinality(S) -> S] :
     /\ \A i, j \in DOMAIN s : i # j => s[i] # s[j]
     /\ \A i, j \in DOMAIN s :
          i < j => events[s[i]].created_at >= events[s[j]].created_at}

\* The LIMIT clause getEvents appends `if (filters?.limit)`.
Limited(s, filters) ==
  IF Truthy(filters.limit) /\ filters.limit.num < Len(s)
  THEN SubSeq(s, 1, filters.limit.num)
  ELSE s

\* getEvents(teamId, filters); it has no await.
getEvents(teamId, filters) ==
  /\ \E s \in OrderedByCreatedAtDesc({i \in DOMAIN events :
                   WhereEvents(events[i], teamId, filters)}) :
       returned' = [op |-> "getEvents",
                    args |-> [teamId |-> teamId, filters |-> filters],
                    value |-> [i \in DOMAIN Limited(s, filters) |->
                                 mapRowToEvent(events[s[i]])]]
  /\ UNCHANGED <<events, clock, nuuid, epc, ecall, original, creating,
                 created, marked, necalls>>
  /\ UNCHANGED <<batch, lvars, cvars, tvars, pvars>>

\* The results getEvents(teamId, filters) can return.
Query(teamId, filters) ==
  { [i \in DOMAIN Limited(s, filters) |-> mapRowToEvent(events[s[i]])] :
      s \in OrderedByCreatedAtDesc({i \in DOMAIN events :
                                     WhereEvents(events[i], teamId, filters)}) }

\* A request of a client is taken up between two tasks of the event loop:
\* a createEvent suspended at its await, which is already resolved, resumes
\* first.
BetweenTasks == \A p \in Procs : epc[p] = "idle"

\* The greatest of since and the createdAt of the events in v.
Latest(v, prev) ==
  LET times == {v[i].createdAt : i \in DOMAIN v}
                 \cup (IF prev = UNDEFINED THEN {} ELSE {prev.str})
  IN IF times = {} THEN UNDEFINED
     ELSE Str(CHOOSE t \in times : \A u \in times : u <= t)

\* A consumer polls getEvents(teamId, {since}) with the greatest createdAt
\* it has received so far, and keeps what it is handed.
consumerPoll(teamId) ==
  /\ BetweenTasks
  /\ requests < MaxRequests
  /\ requests' = requests + 1
  /\ \E v \in Query(teamId, [type |-> UNDEFINED, since |-> since,
                              limit |-> UNDEFINED]) :
       /\ got' = got \o [i \in DOMAIN v |-> v[i].id]
       /\ since' = Latest(v, since)
  /\ UNCHANGED <<lvars, evars, cvars, tvars>>

\* The limit the paging client sends with every request.
PageLimit == 2

\* pagination.nextSince of the GET /api/events response.
nextSince(v) == IF Len(v) > 0 THEN Str(v[Len(v)].createdAt) ELSE UNDEFINED

\* A client pages GET /api/events?limit=PageLimit, passing the nextSince
\* of the last response as since; it stops when a response has none.
pageRequest(teamId) ==
  /\ BetweenTasks
  /\ requests < MaxRequests
  /\ requests = 0 \/ since # UNDEFINED
  /\ requests' = requests + 1
  /\ \E v \in Query(teamId, [type |-> UNDEFINED, since |-> since,
                              limit |-> [num |-> PageLimit]]) :
       /\ got' = got \o [i \in DOMAIN v |-> v[i].id]
       /\ since' = nextSince(v)
  /\ UNCHANGED <<lvars, evars, cvars, tvars>>

\* Time passes.
Tick ==
  /\ clock < MaxClock
  /\ clock' = clock + 1
  /\ returned' = NoResult
  /\ UNCHANGED <<events, nuuid, epc, ecall, original, creating, created,
                 marked, necalls>>
  /\ UNCHANGED <<batch, lvars, cvars, tvars, pvars>>

InitEvents ==
  /\ events = <<>>
  /\ clock = 1
  /\ nuuid = 0
  /\ epc = [p \in Procs |-> "idle"]
  /\ ecall = [p \in Procs |-> NoECall]
  /\ original = [p \in Procs |-> NULL]
  /\ creating = [p \in Procs |-> NoFrame]
  /\ created = <<>>
  /\ marked = {}
  /\ necalls = 0
  /\ returned = NoResult
  /\ batch = [p \in Procs |-> NoBatch]

\* ------------------------------------------------------------------------
\* ChatService
\* ------------------------------------------------------------------------

\* config.webhookEnabled, with WEBHOOK_ENABLED=true in the environment.
webhookEnabled == TRUE

\* config.defaultWebhookUrl, with DEFAULT_WEBHOOK_URL unset.
defaultWebhookUrl == ""

ChatTeams == {"t1", "t2"}

\* Table team_webhooks: team t1 has registered a webhook, t2 has not.
team_webhooks == [t \in {"t1"} |-> "https://n8n.example/webhook/t1"]

\* The arguments callers pass to sendMessage.
CreateMessageDTOs ==
  [teamId : ChatTeams, from : {"team"}, text : {"hello"},
   sessionId : {UNDEFINED, Str("session-1")}]

getWebhookUrl(teamId) ==
  IF teamId \in DOMAIN team_webhooks /\ team_webhooks[teamId] # ""
  THEN Str(team_webhooks[teamId])
  ELSE IF defaultWebhookUrl # "" THEN Str(defaultWebhookUrl)
  ELSE NULL

\* The row sendMessage inserts: session_id is `dto.sessionId || null`.
MessageRow(id, dto, now) ==
  [id |-> id, team_id |-> dto.teamId, from |-> dto.from, text |-> dto.text,
   session_id |-> IF dto.sessionId # UNDEFINED THEN dto.sessionId ELSE NULL,
   created_at |-> now]

\* The Message sendMessage returns and posts to the webhook.
Message(id, dto, now) ==
  [id |-> id, teamId |-> dto.teamId, from |-> dto.from, text |-> dto.text,
   sessionId |-> dto.sessionId, createdAt |-> now]

\* sendMessage(dto).  It awaits nothing: the INSERT, the call of
\* sendWebhook up to its `await fetch(...)` (or to its return when the
\* team has no webhook URL) and the return are one segment.
sendMessage(dto) ==
  /\ Len(messages) < MaxMessages
  /\ LET id == uuidv4
         now == clock
         message == Message(id, dto, now)
         webhookUrl == getWebhookUrl(dto.teamId)
     IN /\ messages' = Append(messages, MessageRow(id, dto, now))
        /\ IF ~webhookEnabled
           THEN UNCHANGED <<deliveries, log>>
           ELSE IF webhookUrl = NULL
           THEN /\ log' = Append(log, [level |-> "debug",
                                       text |-> "No webhook URL configured",
                                       messageId |-> id])
                /\ UNCHANGED deliveries
           ELSE /\ deliveries' = Append(deliveries,
                                        [url |-> webhookUrl, body |-> message,
                                         state |-> "pending"])
                /\ UNCHANGED log
        /\ sent' = [op |-> "sendMessage", args |-> dto, value |-> message]
  /\ nuuid' = nuuid + 1
  /\ UNCHANGED <<events, clock, epc, ecall, original, creating, created,
                 marked, necalls, returned, batch>>
  /\ UNCHANGED <<lvars, tvars, pvars>>

\* sendWebhook from the resumption of `await fetch(...)` to its end; fetch
\* resolved with a response whose ok is `ok`.
webhookResponds(i, ok) ==
  /\ i \in DOMAIN deliveries /\ deliveries[i].state = "pending"
  /\ deliveries' = [deliveries EXCEPT ![i].state = "settled"]
  /\ log' = Append(log, IF ok
                        THEN [level |-> "debug",
                              text |-> "Webhook sent successfully",
                              messageId |-> deliveries[i].body.id]
                        ELSE [level |-> "warn",
                              text |-> "Webhook returned non-OK status",
                              messageId |-> deliveries[i].body.id])
  /\ sent' = NoResult
  /\ UNCHANGED messages
  /\ UNCHANGED <<lvars, evars, tvars, pvars>>

\* Variant of the catch block that deletes the message that could not be
\* delivered.
webhookFails_Removes(i, aborted) ==
  /\ i \in DOMAIN deliveries /\ deliveries[i].state = "pending"
  /\ deliveries' = [deliveries EXCEPT ![i].state = "settled"]
  /\ log' = Append(log, [level |-> "error", text |-> "Webhook request failed",
                         messageId |-> deliveries[i].body.id])
  /\ sent' = NoResult
  /\ messages' = SelectSeq(messages,
                           LAMBDA m : m.id # deliveries[i].body.id)
  /\ UNCHANGED <<lvars, evars, tvars, pvars>>

\* sendWebhook from the rejection of `await fetch(...)` through its catch
\* block: the timer aborted the request (the server did not answer within
\* config.webhookTimeout) or the request failed.
webhookFails(i, aborted) ==
  /\ i \in DOMAIN deliveries /\ deliveries[i].state = "pending"
  /\ deliveries' = [deliveries EXCEPT ![i].state = "settled"]
  /\ log' = Append(log, IF aborted
                        THEN [level |-> "warn",
                              text |-> "Webhook request timed out",
                              messageId |-> deliveries[i].body.id]
                        ELSE [level |-> "error",
                              text |-> "Webhook request failed",
                              messageId |-> deliveries[i].body.id])
  /\ sent' = NoResult
  /\ UNCHANGED messages
  /\ UNCHANGED <<lvars, evars, tvars, pvars>>

InitChat ==
  /\ messages = <<>>
  /\ deliveries = <<>>
  /\ log = <<>>
  /\ sent = NoResult

\* ------------------------------------------------------------------------
\* AuthService
\* ------------------------------------------------------------------------
JWT_SECRET == "dev-secret-change-in-production"

\* '30d', in seconds.
JWT_EXPIRY == 2592000

Modes == {"development", "judging"}

\* jwt.sign(payload, secret, {expiresIn: JWT_EXPIRY}) at instant now.
sign(payload, secret, now) ==
  [teamId |-> payload.teamId, scopes |-> payload.scopes, iat |-> now,
   exp |-> now + JWT_EXPIRY, secret |-> secret]

\* The scopes generateTeamToken puts in a team's token.
TeamScopes(mode) ==
  {"read:inventory", "read:events", "write:chat"}
    \cup (IF mode = "development" THEN {"write:events"} ELSE {})

generateTeamToken(teamId, mode, now) ==
  sign([teamId |-> Str(teamId), scopes |-> TeamScopes(mode)], JWT_SECRET, now)

generateAdminToken(now) ==
  sign([teamId |-> NULL, scopes |-> {"admin:all"}], JWT_SECRET, now)

\* jwt.verify(token, JWT_SECRET) at instant now: the signature was made
\* with the secret and the token has not expired.
verify(token, now) == token.secret = JWT_SECRET /\ now < token.exp

validateToken(token, now) ==
  IF verify(token, now)
  THEN [teamId |-> token.teamId, scopes |-> token.scopes,
        iat |-> token.iat, exp |-> token.exp]
  ELSE [error |-> "Invalid or expired token"]

hasScope(payload, requiredScope) ==
  "admin:all" \in payload.scopes \/ requiredScope \in payload.scopes

\* ------------------------------------------------------------------------
\* TeamService
\* ------------------------------------------------------------------------
TeamNames == {"Team A"}

\* The rows of table teams with the given team_id.
TeamRows(teamId) == {i \in DOMAIN teams : teams[i].team_id = teamId}

\* createTeam(name).  Its one await, on initializeTeamInventory (which has
\* no await itself), comes after every statement that touches state; the
\* resumption only returns the team.  The INSERT throws when the team_id
\* of this instant is taken; the token was signed before it.
TeamCreate(name) ==
  LET teamId == TeamIds[clock]
      apiKey == generateTeamToken(teamId, "development", clock)
  IN /\ issued' = issued \cup {apiKey}
     /\ IF TeamRows(teamId) # {}
        THEN UNCHANGED <<teams, inventory, initialized>>
        ELSE /\ teams' = Append(teams,
                                [team_id |-> teamId, name |-> name,
                                 api_key |-> apiKey, mode |-> "development",
                                 created_at |-> clock])
             /\ inventory' = InsertOrIgnore(teamId)
             /\ initialized' = Append(initialized,
                                      [teamId |-> teamId,
                                       after |-> Len(applied)])
     /\ UNCHANGED <<setting, lastMode>>
     /\ UNCHANGED <<inventory_events, lpc, lcall, current, lresult, applied,
                    ncalls>>

createTeam(name) ==
  /\ TeamCreate(name)
  /\ UNCHANGED response
  /\ UNCHANGED <<evars, cvars, pvars>>

\* setMode(mode) up to `await this.getAllTeams()`: the UPDATE of every
\* row's mode, and the teams getAllTeams read.
ModeSet(mode) ==
  /\ setting = NULL
  /\ teams' = [i \in DOMAIN teams |-> [teams[i] EXCEPT !.mode = mode]]
  /\ setting' = [mode |-> mode,
                  teams |-> [i \in DOMAIN teams |-> teams[i].team_id]]
  /\ lastMode' = mode
  /\ UNCHANGED issued

setModeCall(mode) ==
  /\ ModeSet(mode)
  /\ UNCHANGED response
  /\ UNCHANGED <<lvars, evars, cvars, pvars>>

\* The api_key column after the loop of setMode over the teams it read.
Rekeyed(ids, mode, now) ==
  [i \in DOMAIN teams |->
     IF \E j \in DOMAIN ids : ids[j] = teams[i].team_id
     THEN [teams[i] EXCEPT !.api_key =
             generateTeamToken(teams[i].team_id, mode, now)]
     ELSE teams[i]]

\* setMode from the resumption of its await to its end.
setMode ==
  /\ setting # NULL
  /\ teams' = Rekeyed(setting.teams, setting.mode, clock)
  /\ issued' = issued \cup
                 {generateTeamToken(setting.teams[j], setting.mode, clock) :
                    j \in DOMAIN setting.teams}
  /\ setting' = NULL
  /\ UNCHANGED <<lastMode, response>>
  /\ UNCHANGED <<lvars, evars, cvars, pvars>>

\* getPlatformMode(): `SELECT mode FROM teams LIMIT 1`, the first row of
\* the table, `|| 'development'`.
getPlatformMode ==
  IF teams = <<>> THEN "development" ELSE teams[1].mode

\* ------------------------------------------------------------------------
\* The router of /api/admin
\* ------------------------------------------------------------------------

\* The key scripts/generate-admin-key signed before the server started,
\* and a token with the same payload signed with another secret.
AdminToken == generateAdminToken(PastTime)

ForgedToken == sign([teamId |-> NULL, scopes |-> {"admin:all"}], "guess",
                    PastTime)

\* The requests clients send to /api/admin, with bodies the handlers'
\* own validation accepts.
AdminRequests ==
  { [path |-> "POST /events", dto |-> dto] : dto \in CreateEventDTOs }
  \cup { [path |-> "POST /inventory", type |-> type, key |-> k, quantity |-> 3] :
           type \in {"restock", "adjust"}, k \in Contended }
  \cup { [path |-> "POST /teams", name |-> name] : name \in TeamNames }
  \cup { [path |-> "POST /mode", mode |-> mode] : mode \in Modes }

\* authMiddleware: 401 without a token validateToken accepts, else the
\* scopes it attaches to the request.
authMiddleware(token, now) ==
  IF "error" \in DOMAIN validateToken(token, now)
  THEN [status |-> 401]
  ELSE [scopes |-> validateToken(token, now).scopes]

\* Variant that lets every authenticated request through.
requireAdmin_Authenticated(scopes) == [next |-> TRUE]

\* requireAdmin on the scopes authMiddleware attached.
requireAdmin(scopes) ==
  IF "admin:all" \notin scopes THEN [status |-> 403] ELSE [next |-> TRUE]

\* router.use(authMiddleware); router.use(requireAdmin): the status the
\* two answer with, or 0 when they pass the request on to its handler.
AdminGate(token, now) ==
  LET auth == authMiddleware(token, now)
  IN IF "status" \in DOMAIN auth THEN auth.status
     ELSE IF "status" \in DOMAIN requireAdmin(auth.scopes)
     THEN requireAdmin(auth.scopes).status
     ELSE 0

\* The handler of an admin route up to the first await of the service
\* method it calls.
AdminHandler(p, req) ==
  IF req.path = "POST /events"
  THEN /\ createEventStart(p, req.dto)
       /\ UNCHANGED <<lvars, cvars, pvars>>
       /\ UNCHANGED <<teams, issued, setting, lastMode>>
  ELSE IF req.path = "POST /inventory"
  THEN /\ LedgerStart(p, req.type, req.key, req.quantity)
       /\ UNCHANGED <<evars, cvars, pvars>>
       /\ UNCHANGED <<teams, issued, setting, lastMode>>
  ELSE IF req.path = "POST /teams"
  THEN /\ TeamCreate(req.name)
       /\ UNCHANGED <<evars, cvars, pvars>>
  ELSE /\ ModeSet(req.mode)
       /\ UNCHANGED <<lvars, evars, cvars, pvars>>

\* A request to /api/admin carrying `Authorization: Bearer token`.
adminRoute(p, token, req) ==
  /\ response.n < MaxRequests
  /\ response' = [n |-> response.n + 1, token |-> token, path |-> req.path,
                   status |-> AdminGate(token, clock)]
  /\ IF AdminGate(token, clock) # 0
     THEN /\ UNCHANGED <<teams, issued, setting, lastMode>>
          /\ UNCHANGED <<lvars, evars, cvars, pvars>>
     ELSE AdminHandler(p, req)

NoResponse == [n |-> 0]

InitTeams ==
  /\ teams = <<>>
  /\ issued = {}
  /\ setting = NULL
  /\ lastMode = "none"
  /\ response = NoResponse

InitPolling ==
  /\ since = UNDEFINED
  /\ got = <<>>
  /\ requests = 0

Init == InitLedger /\ InitEvents /\ InitChat /\ InitTeams /\ InitPolling

\* Concurrent callers of the ledger; the team is initialised once.
Next ==
  \/ \E t \in Teams : initializeTeamInventory(t) /\ inventory' # inventory
  \/ \E p \in Procs, op \in LedgerOps, k \in Contended, q \in Quantities :
       LedgerCall(p, op, k, q)
  \/ \E p \in Procs : restock(p)
  \/ \E p \in Procs : reserve(p)
  \/ \E p \in Procs : release(p)
  \/ \E p \in Procs : adjust(p)
  \/ \E p \in Procs : LedgerReturn(p)

Spec == Init /\ [][Next]_vars

\* One caller of the ledger, and initializeTeamInventory called again at
\* any moment.
NextInitialize ==
  \/ \E t \in Teams : initializeTeamInventory(t)
  \/ \E op \in LedgerOps, k \in Contended, q \in Quantities :
       LedgerCall("p1", op, k, q)
  \/ restock("p1")
  \/ reserve("p1")
  \/ release("p1")
  \/ adjust("p1")
  \/ LedgerReturn("p1")

SpecInitialize == Init /\ [][NextInitialize]_vars

\* One caller of the ledger whose audit INSERT can fail.
NextFaults ==
  \/ \E t \in Teams : initializeTeamInventory(t) /\ inventory' # inventory
  \/ \E op \in LedgerOps, k \in Contended, q \in Quantities :
       LedgerCall("p1", op, k, q)
  \/ restock("p1")
  \/ reserve("p1")
  \/ release("p1")
  \/ adjust("p1")
  \/ logInventoryEventThrows("p1")
  \/ LedgerReturn("p1")

SpecFaults == Init /\ [][NextFaults]_vars

\* Concurrent callers working on any record of the team.
NextRows ==
  \/ \E t \in Teams : initializeTeamInventory(t) /\ inventory' # inventory
  \/ \E p \in Procs, op \in LedgerOps, k \in Teams \X Skus :
       LedgerCall(p, op, k, 3)
  \/ \E p \in Procs : restock(p)
  \/ \E p \in Procs : reserve(p)
  \/ \E p \in Procs : release(p)
  \/ \E p \in Procs : adjust(p)
  \/ \E p \in Procs : LedgerReturn(p)

SpecRows == Init /\ [][NextRows]_vars

NextEvents ==
  \/ \E p \in Procs, dto \in CreateEventDTOs : createEventCall(p, dto)
  \/ \E p \in Procs : createEvent(p)
  \/ \E p \in Procs, id \in KnownIds, delayUntil \in DelayUntils :
       replayEventCall(p, id, delayUntil)
  \/ \E p \in Procs : replayEvent(p)
  \/ \E id \in KnownIds : markAsProcessed(id)
  \/ getDueEvents
  \/ Tick

SpecEvents == Init /\ [][NextEvents]_vars

\* Callers that create events, mark them processed and ask for duplicates.
NextDuplicate ==
  \/ \E p \in Procs, dto \in CreateEventDTOs : createEventCall(p, dto)
  \/ \E p \in Procs : createEvent(p)
  \/ \E p \in Procs, id \in KnownIds : sendDuplicateEventCall(p, id)
  \/ \E p \in Procs : sendDuplicateEvent(p)
  \/ \E id \in KnownIds : markAsProcessed(id)
  \/ Tick

SpecDuplicate == Init /\ [][NextDuplicate]_vars

\* Callers of sendOutOfOrderEvents.
NextOutOfOrder ==
  \/ \E p \in Procs : createEvent(p)
  \/ \E p \in Procs, team \in Teams, evs \in Batches :
       sendOutOfOrderEventsCall(p, team, evs)
  \/ \E p \in Procs : sendOutOfOrderEvents(p)

SpecOutOfOrder == Init /\ [][NextOutOfOrder]_vars

\* One caller of createDelayedEvents at a time, and the poller of due
\* events.
NextDelayed ==
  \/ \E team \in Teams, evs \in DelayedBatches, delayMs \in Delays :
       createDelayedEventsCall("p1", team, evs, delayMs)
  \/ createEvent("p1")
  \/ createDelayedEventsPause("p1")
  \/ createDelayedEvents("p1")
  \/ \E id \in KnownIds : markAsProcessed(id)
  \/ getDueEvents
  \/ Tick

SpecDelayed == Init /\ [][NextDelayed]_vars

\* Callers of createEvent and readers of the event log.
NextQueries ==
  \/ \E p \in Procs, dto \in QueryDTOs : createEventCall(p, dto)
  \/ \E p \in Procs : createEvent(p)
  \/ \E team \in QueryTeams, filters \in EventFilters :
       getEvents(team, filters)
  \/ Tick

SpecQueries == Init /\ [][NextQueries]_vars

\* Callers of createEvent with each event type and an empty payload.
NextTypes ==
  \/ \E p \in Procs, dto \in TypeDTOs : createEventCall(p, dto)
  \/ \E p \in Procs : createEvent(p)

SpecTypes == Init /\ [][NextTypes]_vars

\* Callers of sendMessage and the webhook requests they start; a pending
\* request may stay unanswered.
NextChat ==
  \/ \E dto \in CreateMessageDTOs : sendMessage(dto)
  \/ \E i \in 1..MaxMessages, ok \in BOOLEAN : webhookResponds(i, ok)
  \/ \E i \in 1..MaxMessages, aborted \in BOOLEAN : webhookFails(i, aborted)
  \/ Tick

SpecChat == Init /\ [][NextChat]_vars

\* Overlapping createEvent calls resumed in the order of the microtask
\* queue, while the clock advances.
NextOrdered ==
  \/ \E p \in Procs, dto \in CreateEventDTOs : createEventCall(p, dto)
  \/ \E p \in Procs : createEvent(p) /\ Oldest(p)
  \/ Tick

SpecOrdered == Init /\ [][NextOrdered]_vars

\* Staff create teams and switch the platform mode while time passes.
NextTeams ==
  \/ \E name \in TeamNames : createTeam(name)
  \/ \E mode \in Modes : setModeCall(mode)
  \/ setMode
  \/ Tick

SpecTeams == Init /\ [][NextTeams]_vars

\* Clients of /api/admin holding the admin key, a forged key or a key
\* issued to a team, and the continuations of the calls their requests
\* start.
NextAdmin ==
  \/ \E p \in Procs, token \in {AdminToken, ForgedToken} \cup issued,
        req \in AdminRequests :
       adminRoute(p, token, req)
  \/ \E p \in Procs : createEvent(p)
  \/ \E p \in Procs : restock(p)
  \/ \E p \in Procs : adjust(p)
  \/ \E p \in Procs : LedgerReturn(p)
  \/ setMode

SpecAdmin == Init /\ [][NextAdmin]_vars

\* One producer that creates events one after the other, and a consumer
\* of team t1 polling for what is new.
NextConsumer ==
  \/ \E dto \in QueryDTOs : createEventCall("p1", dto)
  \/ createEvent("p1")
  \/ consumerPoll("t1")
  \/ Tick

SpecConsumer == Init /\ [][NextConsumer]_vars

\* The same producer, and a client of team t1 paging through the log.
NextPaging ==
  \/ \E dto \in QueryDTOs : createEventCall("p1", dto)
  \/ createEvent("p1")
  \/ pageRequest("t1")
  \/ Tick

SpecPaging == Init /\ [][NextPaging]_vars

\* One caller at a time that creates, replays and duplicates events and
\* sends delayed batches, with markAsProcessed and the poller of due events.
NextProcessed ==
  \/ \E dto \in CreateEventDTOs : createEventCall("p1", dto)
  \/ createEvent("p1")
  \/ \E id \in KnownIds, delayUntil \in DelayUntils :
       replayEventCall("p1", id, delayUntil)
  \/ replayEvent("p1")
  \/ \E id \in KnownIds : sendDuplicateEventCall("p1", id)
  \/ sendDuplicateEvent("p1")
  \/ \E team \in Teams, evs \in DelayedBatches, delayMs \in Delays :
       createDelayedEventsCall("p1", team, evs, delayMs)
  \/ createDelayedEventsPause("p1")
  \/ createDelayedEvents("p1")
  \/ \E id \in KnownIds : markAsProcessed(id)
  \/ getDueEvents
  \/ Tick

SpecProcessed == Init /\ [][NextProcessed]_vars

\* ------------------------------------------------------------------------
\* Properties of the inventory ledger
\* ------------------------------------------------------------------------
Success == {"ok", "true"}

\* The calls that reached their UPDATE statement.
Wrote == Success \cup {"ConcurrentModification"}

Settled(p) == lpc[p] = "done"

\* p settles in this step.
Settles(p) == lpc[p] = "await" /\ lpc'[p] = "done"

\* C1: after every call the stored record has stock >= 0 and
\* 0 <= reserved <= stock, and the available value getInventoryItem returns
\* is stock - reserved.
C1_LedgerInvariant ==
  \A k \in Keys :
    inventory[k] # NULL =>
      /\ inventory[k].stock >= 0
      /\ 0 <= inventory[k].reserved
      /\ inventory[k].reserved <= inventory[k].stock
      /\ getInventoryItem(k).available
           = inventory[k].stock - inventory[k].reserved

\* Two settled reserve calls on the same record that read it before either
\* wrote, each fitting in available alone, together exceeding it.
OverlappingReserves(p, q) ==
  /\ p # q
  /\ Settled(p) /\ Settled(q)
  /\ lcall[p].op = "reserve" /\ lcall[q].op = "reserve"
  /\ lcall[p].key = lcall[q].key
  /\ current[p] # NULL /\ current[q] # NULL
  /\ current[p].version = current[q].version
  /\ lcall[p].quantity <= current[p].available
  /\ lcall[q].quantity <= current[q].available
  /\ lcall[p].quantity + lcall[q].quantity > current[p].available

\* C2: of two overlapping reserve calls that together ask for more than
\* available, exactly one returns true, the other returns false or fails
\* with a concurrent-modification error, and stock - reserved is not
\* negative afterwards.
C2_OneReserveWins ==
  \A p, q \in Procs :
    OverlappingReserves(p, q) =>
      /\ ~(lresult[p] = "true" /\ lresult[q] = "true")
      /\ lresult[p] = "true" \/ lresult[q] = "true"
      /\ {lresult[p], lresult[q]} \subseteq
           {"true", "false", "ConcurrentModification"}
      /\ inventory[lcall[p].key].stock - inventory[lcall[p].key].reserved >= 0

C2_Witness ==
  \E p, q \in Procs :
    /\ OverlappingReserves(p, q)
    /\ lresult[p] = "true"
    /\ lresult[q] = "ConcurrentModification"

\* Two settled mutations of the same record that read the same version and
\* both reached their UPDATE.
SameVersionWrites(p, q) ==
  /\ p # q
  /\ Settled(p) /\ Settled(q)
  /\ lcall[p].key = lcall[q].key
  /\ current[p] # NULL /\ current[q] # NULL
  /\ current[p].version = current[q].version
  /\ lresult[p] \in Wrote /\ lresult[q] \in Wrote

C3_AtMostOneWins ==
  \A p, q \in Procs :
    SameVersionWrites(p, q) =>
      /\ ~(lresult[p] \in Success /\ lresult[q] \in Success)
      /\ lresult[p] \in Success => lresult[q] = "ConcurrentModification"

C3_LoserChangesNothing ==
  \A p \in Procs :
    Settles(p) /\ lresult'[p] = "ConcurrentModification" =>
      /\ inventory' = inventory
      /\ inventory_events' = inventory_events
      /\ current' = current
      /\ ncalls' = ncalls
      /\ \A q \in Procs \ {p} : lpc'[q] = lpc[q]

\* C3: of two mutations of one record that read the same version at most
\* one write succeeds; the other fails with 'Concurrent modification
\* detected', leaves the inventory row and the audit log as they were, and
\* settles without reading the record again.
C3_VersionConflict ==
  []C3_AtMostOneWins /\ [][C3_LoserChangesNothing]_vars

C3_Witness ==
  \E p, q \in Procs :
    /\ SameVersionWrites(p, q)
    /\ lresult[p] \in Success
    /\ lresult[q] = "ConcurrentModification"
    /\ lcall[p].op # lcall[q].op

AppliedTo(k) == {i \in DOMAIN applied : applied[i].key = k}

C4_VersionCounts ==
  \A k \in Keys :
    inventory[k] # NULL =>
      inventory[k].version = 1 + Cardinality(AppliedTo(k))

C4_VersionStep ==
  /\ \A k \in Keys :
       inventory[k] # NULL =>
         inventory'[k] # NULL /\ inventory'[k].version >= inventory[k].version
  /\ \A p \in Procs :
       Settles(p) /\ current[p] # NULL =>
         LET k == lcall[p].key
         IN IF lresult'[p] \in Success
            THEN /\ inventory'[k].version = inventory[k].version + 1
                 /\ Len(applied') = Len(applied) + 1
            ELSE /\ inventory'[k].version = inventory[k].version
                 /\ applied' = applied

\* C4: a successful restock, reserve, release or adjust raises the record's
\* version by exactly 1, a call that fails or returns false leaves it as it
\* is; version is 1 + the number of successful mutations of the record and
\* never decreases.
C4_VersionCounter ==
  []C4_VersionCounts /\ [][C4_VersionStep]_vars

C4_Witness ==
  \E k \in Keys :
    /\ inventory[k] # NULL
    /\ inventory[k].version = 3
    /\ \E p \in Procs : Settled(p) /\ lresult[p] \notin Success
                        /\ lcall[p].key = k

\* The effect of one successful call on (stock, reserved).
ApplyCall(row, c) ==
  CASE c.op = "restock" ->
         [stock |-> row.stock + c.quantity, reserved |-> row.reserved]
    [] c.op = "reserve" ->
         [stock |-> row.stock, reserved |-> row.reserved + c.quantity]
    [] c.op = "release" ->
         [stock |-> row.stock - c.quantity,
          reserved |-> row.reserved - c.quantity]
    [] c.op = "adjust" ->
         [stock |-> row.stock + c.quantity, reserved |-> row.reserved]

\* The successful calls on k among the first n, applied one after another
\* to the record as initializeTeamInventory created it.
RECURSIVE Replay(_, _)
Replay(k, n) ==
  IF n = 0
  THEN [stock |-> SKUS[k[2]], reserved |-> 0]
  ELSE IF applied[n].key = k
       THEN ApplyCall(Replay(k, n - 1), applied[n])
       ELSE Replay(k, n - 1)

\* C5: no lost updates: stock and reserved are what the successful calls
\* yield when applied one after another in the order of the versions they
\* wrote.
C5_NoLostUpdate ==
  /\ \A i, j \in DOMAIN applied :
       i < j /\ applied[i].key = applied[j].key =>
         applied[i].read < applied[j].read
  /\ \A k \in Keys :
       inventory[k] # NULL =>
         /\ inventory[k].stock = Replay(k, Len(applied)).stock
         /\ inventory[k].reserved = Replay(k, Len(applied)).reserved

C5_Witness ==
  /\ Len(applied) >= 2
  /\ \E p \in Procs :
       Settled(p) /\ lresult[p] = "ConcurrentModification"

\* p's call settles in this step with `result` and writes nothing.
FailsWith(p, result) ==
  /\ lresult'[p] = result
  /\ inventory' = inventory
  /\ inventory_events' = inventory_events
  /\ applied' = applied

\* C14: reserve with a quantity above what the record it read has
\* available (stock - reserved) returns false, raises no error and leaves
\* stock, reserved, version and the audit log as they were.
C14_ReserveShort ==
  [][\A p \in Procs :
       /\ Settles(p) /\ lcall[p].op = "reserve"
       /\ current[p] # NULL
       /\ lcall[p].quantity > current[p].stock - current[p].reserved
       => FailsWith(p, "false")]_vars

C14_Witness ==
  \E p \in Procs :
    /\ Settled(p) /\ lcall[p].op = "reserve" /\ lresult[p] = "false"
    /\ current[p] # NULL
    /\ current[p].reserved > 0
    /\ lcall[p].quantity <= current[p].stock
    /\ lcall[p].quantity > current[p].stock - current[p].reserved

\* C15: a release that would make stock or reserved negative and an adjust
\* that would make stock negative fail with their error before any write:
\* stock, reserved, version and the audit log stay as they were.
C15_NegativeRejected ==
  [][\A p \in Procs :
       Settles(p) /\ current[p] # NULL =>
         /\ lcall[p].op = "release"
              /\ (current[p].stock - lcall[p].quantity < 0
                   \/ current[p].reserved - lcall[p].quantity < 0)
              => FailsWith(p, "InvalidRelease")
         /\ lcall[p].op = "adjust"
              /\ current[p].stock + lcall[p].quantity < 0
              => FailsWith(p, "NegativeStock")]_vars

C15_Witness ==
  \E p, q \in Procs :
    /\ Settled(p) /\ lcall[p].op = "release"
    /\ lresult[p] = "InvalidRelease"
    /\ Settled(q) /\ lcall[q].op = "adjust"
    /\ lresult[q] = "NegativeStock"
    /\ inventory[lcall[q].key].version > 1

\* C16: restock with quantity <= 0 is rejected with a validation error and
\* leaves stock, version and the audit log unchanged.
C16_RestockPositive ==
  [][\A p \in Procs :
       /\ Settles(p) /\ lcall[p].op = "restock"
       /\ current[p] # NULL
       /\ lcall[p].quantity <= 0
       => FailsWith(p, "ValidationError")]_vars

\* The inventory_events type written for each operation.
AuditType(op) ==
  CASE op = "restock" -> "restocked"
    [] op = "reserve" -> "reserved"
    [] op = "release" -> "released"
    [] op = "adjust" -> "adjusted"

\* C17: every successful restock, reserve, release or adjust appends
\* exactly one inventory_events entry of the matching type whose
\* previousStock and newStock are the record's stock right before and
\* right after the mutation; a call that fails or returns false appends
\* none.
C17_OneAuditEntry ==
  [][\A p \in Procs :
       Settles(p) =>
         IF lresult'[p] \in Success
         THEN /\ Len(inventory_events') = Len(inventory_events) + 1
              /\ SubSeq(inventory_events', 1, Len(inventory_events))
                   = inventory_events
              /\ LET e == inventory_events'[Len(inventory_events')]
                 IN /\ e.key = lcall[p].key
                    /\ e.type = AuditType(lcall[p].op)
                    /\ e.previousStock = inventory[lcall[p].key].stock
                    /\ e.newStock = inventory'[lcall[p].key].stock
         ELSE inventory_events' = inventory_events]_vars

NotRelease(c) == c.op # "release"

\* C18: a ledger mutation and its audit entry are one atomic unit: at all
\* times, also after a failed audit insert, the UPDATEs applied by restock,
\* reserve and adjust and the inventory_events entries correspond one to
\* one, in order.
C18_Atomic ==
  LET A == SelectSeq(applied, NotRelease)
  IN /\ Len(inventory_events) = Len(A)
     /\ \A i \in DOMAIN inventory_events :
          /\ i <= Len(A)
          /\ inventory_events[i].key = A[i].key
          /\ inventory_events[i].type = AuditType(A[i].op)
          /\ inventory_events[i].quantity = A[i].quantity

\* This step is a call of initializeTeamInventory.
InitializeStep == Len(initialized') = Len(initialized) + 1

C19_InitializeStep ==
  InitializeStep =>
    /\ \A k \in Keys :
         inventory'[k] =
           IF inventory[k] # NULL THEN inventory[k]
           ELSE IF k[1] = initialized'[Len(initialized')].teamId
                THEN [stock |-> SKUS[k[2]], reserved |-> 0, version |-> 1]
                ELSE NULL
    /\ inventory_events' = inventory_events

\* C19: the first initializeTeamInventory call of a team creates one
\* record per catalog sku with stock = initial_stock, reserved = 0 and
\* version = 1; a later call, also after mutations, adds no row and leaves
\* stock, reserved and version of the existing records as they are.
C19_Idempotent ==
  [][C19_InitializeStep]_vars

C19_Witness ==
  /\ Len(initialized) >= 2
  /\ initialized[2].after >= 1
  /\ \E k \in Keys :
       /\ k[1] = initialized[2].teamId
       /\ inventory[k].version > 1
       /\ inventory[k].stock # SKUS[k[2]]

\* C20: on a (teamId, sku) without inventory row restock, reserve and
\* adjust fail with the not-found error and release returns false; no row
\* and no audit entry is created.
C20_MissingRecord ==
  [][\A p \in Procs :
       Settles(p) /\ inventory[lcall[p].key] = NULL =>
         FailsWith(p, IF lcall[p].op = "release" THEN "false"
                      ELSE "NotFound")]_vars

C20_Witness ==
  \E p, q \in Procs :
    /\ Settled(p) /\ lcall[p].op = "reserve" /\ lresult[p] = "NotFound"
    /\ Settled(q) /\ lcall[q].op = "release" /\ lresult[q] = "false"
    /\ inventory[lcall[p].key] = NULL
    /\ inventory[lcall[q].key] = NULL
    /\ inventory_events = <<>>

\* ------------------------------------------------------------------------
\* Properties of the event log
\* ------------------------------------------------------------------------
StoredIds == {events[i].id : i \in DOMAIN events}

\* C6: two createEvent calls for the same event (same teamId, type,
\* payload and metadata; the method takes no id) return identical Event
\* values and leave one stored row.
C6_IdempotentCreate ==
  \A i, j \in DOMAIN created :
    i # j /\ created[i].dto = created[j].dto =>
      /\ created[i].ret = created[j].ret
      /\ Cardinality({k \in DOMAIN events :
                        events[k].id \in {created[i].ret.id,
                                          created[j].ret.id}}) = 1

\* The columns of an events row other than processed_at.
Immutable(row) ==
  [id |-> row.id, team_id |-> row.team_id, type |-> row.type,
   payload |-> row.payload, created_at |-> row.created_at,
   metadata |-> row.metadata]

C7_AsCreated ==
  /\ \A i, j \in DOMAIN events : i # j => events[i].id # events[j].id
  /\ Len(created) = Len(events)
  /\ \A i \in DOMAIN events :
       Immutable(events[i]) =
         Immutable(InsertedRow(created[i].ret.id, created[i].dto,
                               created[i].ret.createdAt))

C7_NoRowChanges ==
  /\ Len(events') >= Len(events)
  /\ \A i \in DOMAIN events : Immutable(events'[i]) = Immutable(events[i])

\* C7: no stored event is ever deleted, event ids are pairwise distinct,
\* and id, teamId, type, payload, createdAt and metadata of every event
\* stay as createEvent stored them; only processedAt changes.
C7_AppendOnly ==
  []C7_AsCreated /\ [][C7_NoRowChanges]_vars

C7_Witness ==
  /\ Len(events) >= 2
  /\ \E i \in DOMAIN events :
       /\ events[i].processed_at # NULL
       /\ events[i].processed_at # Str(events[i].created_at)

\* C8: markAsProcessed on an event whose processedAt is set leaves
\* processedAt as it is.
C8_StampedOnce ==
  [][\A i \in DOMAIN events :
       events[i].processed_at # NULL =>
         events'[i].processed_at = events[i].processed_at]_vars

\* The ids of the stored events that were created with a delayedUntil at
\* or before the clock and that markAsProcessed was not called on.
ExpectedDue ==
  {created[i].ret.id : i \in
     {j \in DOMAIN created :
        /\ Get(created[j].dto.metadata, "delayedUntil") # UNDEFINED
        /\ Get(created[j].dto.metadata, "delayedUntil").str <= clock
        /\ created[j].ret.id \notin marked}}

\* C9: getDueEvents returns exactly the stored events that have
\* delayedUntil set and not after now and that are not marked processed.
C9_DueEvents ==
  returned.op = "getDueEvents" =>
    /\ {returned.value[i].id : i \in DOMAIN returned.value} = ExpectedDue
    /\ \A i, j \in DOMAIN returned.value :
         i # j => returned.value[i].id # returned.value[j].id
    /\ \A i \in DOMAIN returned.value :
         returned.value[i] = getEventById(returned.value[i].id)

C9_Witness ==
  /\ returned.op = "getDueEvents"
  /\ returned.value # <<>>
  /\ \E i \in DOMAIN created :
       /\ Get(created[i].dto.metadata, "delayedUntil") = Str(PastTime)
       /\ created[i].ret.id \in marked

\* p's replayEvent call stores its event and settles in this step.
ReplayStores(p) ==
  /\ epc[p] = "create_await"
  /\ ecall[p].op = "replayEvent"
  /\ epc'[p] = "idle"

C10_ReplayStep ==
  \A p \in Procs :
    /\ ReplayStores(p) =>
         LET id == ecall[p].eventId
             orig == events[CHOOSE i \in DOMAIN events : events[i].id = id]
             new == events'[Len(events')]
         IN /\ Len(events') = Len(events) + 1
            /\ \A i \in DOMAIN events : events'[i] = events[i]
            /\ new.id # id
            /\ new.id \notin StoredIds
            /\ new.team_id = orig.team_id
            /\ new.type = orig.type
            /\ new.payload = orig.payload
            /\ json_extract(new.metadata, "replayOf") = Str(id)
            /\ ecall[p].delayUntil # UNDEFINED =>
                 json_extract(new.metadata, "delayedUntil")
                   = ecall[p].delayUntil
            /\ returned'.value.id = new.id
            /\ Get(returned'.value.metadata, "replayOf") = Str(id)
            /\ Get(returned'.value.metadata, "delayedUntil")
                 = ecall[p].delayUntil
    /\ epc'[p] # epc[p] /\ "replay_await" \in {epc[p], epc'[p]}
         => events' = events

\* C10: replayEvent on an existing id stores exactly one new event, with
\* another id, the original's teamId, type and payload, metadata.replayOf
\* = id and metadata.delayedUntil = delayUntil when given, and leaves the
\* original event as it is.
C10_Replay ==
  [][C10_ReplayStep]_vars

C10_Witness ==
  /\ returned.op = "replayEvent"
  /\ "error" \notin DOMAIN returned.value
  /\ returned.args.delayUntil = Str(SoonTime)
  /\ \E i \in DOMAIN events :
       /\ events[i].id = returned.args.eventId
       /\ events[i].type = "event.delayed"

\* p's replayEvent call leaves its await in this step.
ReplayResumes(p) == epc[p] = "replay_await" /\ epc'[p] # "replay_await"

C11_ReplayMissingStep ==
  \A p \in Procs :
    ReplayResumes(p) /\ RowsWithId(ecall[p].eventId) = {} =>
      /\ returned' = [op |-> "replayEvent", by |-> p, args |-> ecall[p],
                      value |-> [error |-> "NotFound"]]
      /\ epc'[p] = "idle"
      /\ events' = events
      /\ nuuid' = nuuid
      /\ created' = created

\* C11: replayEvent with an id that matches no stored event fails with
\* the not-found error and creates no event.
C11_ReplayMissing ==
  [][C11_ReplayMissingStep]_vars

C11_Witness ==
  /\ returned.op = "replayEvent"
  /\ returned.value = [error |-> "NotFound"]
  /\ RowsWithId(returned.args.eventId) = {}
  /\ events # <<>>

\* C12: markAsProcessed with an id that matches no stored event fails with
\* a not-found error and changes nothing.
C12_MarkMissing ==
  [][\A id \in KnownIds :
       returned'.op = "markAsProcessed" /\ returned'.args = id
         /\ RowsWithId(id) = {} =>
           /\ Get(returned', "value") = [error |-> "NotFound"]
           /\ events' = events]_vars

\* p's createEvent call settles in this step.
CreateSettles(p) ==
  /\ epc[p] = "create_await"
  /\ ecall[p].op = "createEvent"
  /\ epc'[p] = "idle"

\* C13: createEvent rejects with a validation error, storing nothing, an
\* event whose payload fails the validator of its type; an event of a type
\* without validator is stored whatever its payload.
C13_ValidatedCreate ==
  [][\A p \in Procs :
       CreateSettles(p) =>
         IF validateEventPayload(creating[p].dto.type, creating[p].dto.payload)
         THEN Len(events') = Len(events) + 1
         ELSE /\ returned'.value = [error |-> "ValidationError"]
              /\ events' = events]_vars

\* The stored event with this id, as getEventById maps it; NULL if none.
StoredEvent(id) ==
  IF \E i \in DOMAIN events : events[i].id = id
  THEN mapRowToEvent(events[CHOOSE i \in DOMAIN events : events[i].id = id])
  ELSE NULL

C21_DuplicateStep ==
  \A p \in Procs :
    /\ epc[p] = "idle" /\ epc'[p] = "duplicate_await" =>
         /\ events' = events
         /\ original'[p] = StoredEvent(ecall'[p].eventId)
    /\ epc[p] = "duplicate_await" /\ epc'[p] # "duplicate_await" =>
         /\ events' = events
         /\ nuuid' = nuuid
         /\ created' = created
         /\ returned'.op = "sendDuplicateEvent"
         /\ returned'.value = IF original[p] = NULL
                              THEN [error |-> "NotFound"]
                              ELSE original[p]

\* C21: sendDuplicateEvent returns the stored event with that id as the
\* call read it and stores nothing: the events table is the same before
\* and after the call; for an id that matches no event it fails with the
\* not-found error.
C21_Duplicate ==
  [][C21_DuplicateStep]_vars

C21_Witness ==
  /\ returned.op = "sendDuplicateEvent"
  /\ returned.value = StoredEvent(returned.args.eventId)
  /\ returned.value # NULL
  /\ returned.value.processedAt # NULL
  /\ Len(events) = 1

\* Event ev is what createEvent makes of batch element e for teamId with
\* the metadata properties extra added: e's type, e's payload as JSON
\* keeps it, e's metadata and extra.
MatchesElement(ev, e, teamId, extra) ==
  /\ ev # NULL
  /\ ev.teamId = teamId
  /\ ev.type = e.type
  /\ JSON_stringify(ev.payload) = JSON_stringify(e.payload)
  /\ \A k \in DOMAIN extra : Get(ev.metadata, k) = extra[k]
  /\ \A k \in DOMAIN Spread(Get(e, "metadata")) \ DOMAIN extra :
       Get(ev.metadata, k) = e.metadata[k]

\* p's batch call stores an event in this step.
BatchStores(p) ==
  /\ ecall[p].op \in BatchOps
  /\ epc[p] = "create_await" /\ epc'[p] = "batch_await"

\* p's batch call returns its array in this step.
BatchReturns(p) ==
  /\ ecall[p].op \in BatchOps
  /\ epc[p] \in {"batch_await", "pause"} /\ epc'[p] = "idle"

\* p's batch call fails in this step.
BatchFails(p) ==
  /\ ecall[p].op \in BatchOps
  /\ epc[p] = "create_await" /\ epc'[p] = "idle"

\* Every step of a batch call stores nothing, except the resumption of a
\* createEvent, which stores one event under a new id and puts it at the
\* end of createdEvents.
OneEventPerElement(p) ==
  /\ BatchStores(p) =>
       LET new == events'[Len(events')]
       IN /\ Len(events') = Len(events) + 1
          /\ SubSeq(events', 1, Len(events)) = events
          /\ new.id \notin StoredIds
          /\ Len(batch'[p].done) = Len(batch[p].done) + 1
          /\ SubSeq(batch'[p].done, 1, Len(batch[p].done)) = batch[p].done
          /\ batch'[p].done[Len(batch'[p].done)].id = new.id
          /\ Len(batch'[p].done) + Len(batch'[p].todo) = Len(batch[p].events)
  /\ (ecall[p].op \in BatchOps \/ ecall'[p].op \in BatchOps)
       /\ epc'[p] # epc[p] /\ ~BatchStores(p)
       => events' = events

C22_OutOfOrderStep ==
  \A p \in Procs :
    ecall[p].op = "sendOutOfOrderEvents"
      \/ ecall'[p].op = "sendOutOfOrderEvents" =>
      /\ OneEventPerElement(p)
      /\ BatchReturns(p) =>
           LET evs == batch[p].events
               res == returned'.value.array
           IN /\ returned'.args.events = evs
              /\ Len(res) = Len(evs)
              /\ \E f \in Permutations(DOMAIN evs) :
                   \A i \in DOMAIN evs :
                     /\ MatchesElement(StoredEvent(res[i].id), evs[f[i]],
                                       batch[p].teamId,
                                       [outOfOrder |-> Str("true")])
                     /\ MatchesElement(res[i], evs[f[i]], batch[p].teamId,
                                       [outOfOrder |-> Str("true")])

\* C22: sendOutOfOrderEvents(teamId, events) stores exactly one event per
\* element of events, in some rearrangement of their order, each with the
\* given teamId, the element's type and payload, metadata.outOfOrder set
\* and the element's other metadata kept.
C22_OutOfOrder ==
  [][C22_OutOfOrderStep]_vars

C22_Witness ==
  /\ returned.op = "sendOutOfOrderEvents"
  /\ IsArray(returned.value)
  /\ Len(returned.value.array) = 2
  /\ returned.args.events[1].type = "order.created"
  /\ returned.value.array[1].type = "event.delayed"
  /\ returned.value.array[1].teamId # returned.args.events[2].teamId
  /\ Get(returned.value.array[1].metadata, "correlationId") = Str("corr-123")
  /\ Get(StoredEvent(returned.value.array[1].id).metadata, "outOfOrder")
       = Str("true")

\* C24: a sendOutOfOrderEvents or createDelayedEvents call that fails on
\* one of its elements leaves the events table as it was before the call:
\* none of the events the call created remains stored.
C24_AllOrNothing ==
  [][\A p \in Procs :
       BatchFails(p) =>
         \A i \in DOMAIN batch[p].done :
           batch[p].done[i].id \notin StoredIds']_vars

C23_DelayedStep ==
  \A p \in Procs :
    ecall[p].op = "createDelayedEvents" =>
      /\ OneEventPerElement(p)
      /\ BatchStores(p) =>
           LET new == events'[Len(events')]
           IN json_extract(new.metadata, "delayedUntil")
                = Str(new.created_at + batch[p].delayMs)

\* The ids a getDueEvents call made now has to return: the stored events
\* whose delayedUntil is not after the clock and that markAsProcessed was
\* not called on.
DelayExpired ==
  {events[i].id : i \in
     {j \in DOMAIN events :
        /\ json_extract(events[j].metadata, "delayedUntil").str <= clock
        /\ events[j].id \notin marked}}

C23_Polls ==
  returned.op = "getDueEvents" =>
    {returned.value[i].id : i \in DOMAIN returned.value} = DelayExpired

Selected(teamId, filters) ==
  {i \in DOMAIN events :
     /\ events[i].team_id = teamId
     /\ filters.type # UNDEFINED => events[i].type = filters.type.str
     /\ filters.since # UNDEFINED => events[i].created_at > filters.since.str}

\* C25: getEvents(teamId, {type, since}) returns exactly the stored events
\* of teamId whose type equals type when given and whose createdAt is
\* strictly after since when given, ordered by createdAt descending;
\* events of other teams are never returned.
C25_GetEvents ==
  (returned.op = "getEvents" /\ returned.args.filters.limit = UNDEFINED) =>
    LET v == returned.value
        sel == Selected(returned.args.teamId, returned.args.filters)
    IN /\ Len(v) = Cardinality(sel)
       /\ \A i \in sel : \E j \in DOMAIN v : v[j] = mapRowToEvent(events[i])
       /\ \A j \in DOMAIN v : v[j].teamId = returned.args.teamId
       /\ \A i, j \in DOMAIN v : i < j => v[i].createdAt >= v[j].createdAt

C25_Witness ==
  /\ returned.op = "getEvents"
  /\ returned.args.filters = [type |-> Str("order.created"),
                              since |-> Str(1), limit |-> UNDEFINED]
  /\ Len(returned.value) = 1
  /\ \E i \in DOMAIN events :
       /\ events[i].team_id # returned.args.teamId
       /\ events[i].type = "order.created"
       /\ events[i].created_at > 1

\* C26: getEvents never returns more events than its bound: at most limit
\* when a limit (any integer >= 0) is supplied.
C26_Bounded ==
  (returned.op = "getEvents" /\ returned.args.filters.limit # UNDEFINED) =>
    Len(returned.value) <= returned.args.filters.limit.num

C27_OtherRowsUnchanged ==
  \A p \in Procs :
    Settles(p) =>
      \A k \in Keys : k # lcall[p].key => inventory'[k] = inventory[k]

C27_NoForeignConflict ==
  \A p \in Procs :
    Settles(p) /\ lresult'[p] = "ConcurrentModification" =>
      \E i \in DOMAIN applied :
        /\ applied[i].key = lcall[p].key
        /\ applied[i].read >= current[p].version
        /\ applied[i].by # p

C28_ReasonStored ==
  [][\A p \in Procs :
       (Settles(p) /\ lcall[p].op = "adjust" /\ lresult'[p] = "ok") =>
         LET entry == inventory_events'[Len(inventory_events')]
         IN /\ entry.type = "adjusted"
            /\ "reason" \in DOMAIN entry
            /\ entry.reason = lcall[p].reason]_vars

C29_AllTypesStep ==
  \A p \in Procs :
    (/\ epc[p] = "create_await" /\ epc'[p] = "idle"
     /\ ecall[p].op = "createEvent"
     /\ creating[p].dto.type \in EventType
     /\ creating[p].dto.payload = EmptyObject) =>
      LET dto == creating[p].dto
      IN /\ returned'.op = "createEvent"
         /\ "error" \notin DOMAIN returned'.value
         /\ returned'.value.type = dto.type
         /\ returned'.value.payload = EmptyObject
         /\ Len(events') = Len(events) + 1
         /\ SubSeq(events', 1, Len(events)) = events
         /\ LET new == events'[Len(events')]
            IN /\ new.id = returned'.value.id
               /\ new.type = dto.type
               /\ new.team_id = dto.teamId
               /\ new.payload = JSON_stringify(EmptyObject)

SendsMessage == sent' # sent /\ sent'.op = "sendMessage"

C30_SendStep ==
  SendsMessage =>
    LET dto == sent'.args
        message == sent'.value
    IN /\ "error" \notin DOMAIN message
       /\ message.teamId = dto.teamId /\ message.from = dto.from
       /\ message.text = dto.text /\ message.sessionId = dto.sessionId
       /\ messages' = Append(messages, MessageRow(message.id, dto,
                                                  message.createdAt))
       /\ \A i \in DOMAIN deliveries' :
            deliveries'[i].body.id = message.id =>
              deliveries'[i].state = "pending"

C30_KeptStep ==
  /\ Len(messages') >= Len(messages)
  /\ \A i \in DOMAIN messages : messages'[i] = messages[i]
  /\ ~SendsMessage => messages' = messages

\* C30: sendMessage stores the message and returns it whatever becomes of
\* the webhook request (it fails, times out, gets a non-OK response or is
\* never answered): the call returns while the request is still pending,
\* and no outcome of the request removes the message or reaches the
\* caller as an error.
C30_WebhookIndependent ==
  [][C30_SendStep /\ C30_KeptStep]_vars

C30_Witness ==
  /\ Len(messages) = 2 /\ Len(deliveries) = 2
  /\ deliveries[1].state = "settled"
  /\ \E k \in DOMAIN log :
       log[k].level = "error" /\ log[k].messageId = deliveries[1].body.id
  /\ messages[1].id = deliveries[1].body.id
  /\ deliveries[2].state = "pending"
  /\ sent.op = "sendMessage" /\ sent.value.id = deliveries[2].body.id
  /\ messages[2].id = sent.value.id

\* C33: a successful adjust on a record with 0 <= reserved <= stock leaves
\* reserved <= stock: adjust never lowers stock below the quantity reserved.
C33_AdjustKeepsReserved ==
  [][\A p \in Procs :
       (/\ Settles(p) /\ lcall[p].op = "adjust" /\ lresult'[p] = "ok"
        /\ 0 <= inventory[lcall[p].key].reserved
        /\ inventory[lcall[p].key].reserved <= inventory[lcall[p].key].stock) =>
         /\ inventory'[lcall[p].key].reserved <= inventory'[lcall[p].key].stock
         /\ getInventoryItem(lcall[p].key)'.available >= 0]_vars

\* The change a successful call of op with quantity q makes to stock and
\* to reserved.
StockDelta(op, q) == IF op \in {"restock", "adjust"} THEN q ELSE 0

ReservedDelta(op, q) == IF op = "reserve" THEN q ELSE 0

\* C34: a successful restock(q) or adjust(q) adds q to stock and leaves
\* reserved alone, a successful reserve(q) adds q to reserved and leaves
\* stock alone; nothing else of the record changes but its version.
C34_Effects ==
  [][\A p \in Procs :
       (/\ Settles(p) /\ lcall[p].op \in {"restock", "reserve", "adjust"}
        /\ lresult'[p] \in Success) =>
         LET k == lcall[p].key
             q == lcall[p].quantity
         IN /\ inventory'[k].stock
                 = inventory[k].stock + StockDelta(lcall[p].op, q)
            /\ inventory'[k].reserved
                 = inventory[k].reserved + ReservedDelta(lcall[p].op, q)
            /\ DOMAIN inventory'[k] = {"stock", "reserved", "version"}
            /\ \A k2 \in Keys : k2 # k => inventory'[k2] = inventory[k2]]_vars

C34_Witness ==
  \E p \in Procs :
    /\ Settled(p) /\ lresult[p] = "ok" /\ lcall[p].op = "restock"
    /\ lcall[p].quantity = 3
    /\ inventory[lcall[p].key].reserved = 3
    /\ inventory[lcall[p].key].stock = 8

\* C35: a successful release(q) takes q from stock and q from reserved,
\* so the available quantity is as before, and returns true.
C35_Release ==
  [][\A p \in Procs :
       (/\ Settles(p) /\ lcall[p].op = "release"
        /\ inventory'[lcall[p].key] # inventory[lcall[p].key]) =>
         LET k == lcall[p].key
             q == lcall[p].quantity
         IN /\ lresult'[p] = "true"
            /\ inventory'[k].stock = inventory[k].stock - q
            /\ inventory'[k].reserved = inventory[k].reserved - q
            /\ getInventoryItem(k)'.available
                 = getInventoryItem(k).available]_vars

C35_Witness ==
  \E p \in Procs :
    /\ Settled(p) /\ lresult[p] = "true" /\ lcall[p].op = "release"
    /\ lcall[p].quantity = 3
    /\ inventory[lcall[p].key].reserved = 0
    /\ inventory[lcall[p].key].stock = 2

\* C36: createdAt reflects storage order: of any two stored events the one
\* inserted earlier has a createdAt not after that of the one inserted
\* later, also when createEvent calls overlap.
C36_StorageOrder ==
  \A i, j \in DOMAIN events :
    i < j => events[i].created_at <= events[j].created_at

C36_Witness ==
  /\ epc["p1"] = "idle" /\ epc["p2"] = "create_await"
  /\ Len(events) = 1
  /\ events[1].created_at < creating["p2"].now

\* C40: in every state all teams have the same mode, and getPlatformMode
\* returns the mode passed to the most recent setMode call ('development'
\* if setMode was never called), whatever createTeam calls happened before
\* or after it.
C40_PlatformMode ==
  setting = NULL =>
    /\ \A i, j \in DOMAIN teams : teams[i].mode = teams[j].mode
    /\ getPlatformMode = (IF lastMode = "none" THEN "development"
                          ELSE lastMode)

\* The tokens validateToken accepts for a team at this instant.
AcceptedTeamTokens ==
  {token \in issued :
     /\ "error" \notin DOMAIN validateToken(token, clock)
     /\ validateToken(token, clock).teamId # NULL}

\* C32: while the platform mode is judging, every token that validateToken
\* accepts for a team, whenever it was issued, lacks write:events.
C32_JudgingTokens ==
  (setting = NULL /\ getPlatformMode = "judging") =>
    \A token \in AcceptedTeamTokens :
      "write:events" \notin validateToken(token, clock).scopes

\* The request of this step carries a token validateToken accepts that
\* lacks admin:all.
NonAdminRequest ==
  /\ response' # response
  /\ "error" \notin DOMAIN validateToken(response'.token, clock)
  /\ "admin:all" \notin validateToken(response'.token, clock).scopes

\* C31: an /api/admin request with a token that lacks admin:all is answered
\* 403 before any service is called: events, inventory, messages, teams,
\* tokens and the platform mode are as before the request.
C31_AdminOnly ==
  [][NonAdminRequest =>
       /\ response'.status = 403
       /\ UNCHANGED <<lvars, evars, cvars>>
       /\ UNCHANGED <<teams, issued, setting, lastMode>>
       /\ getPlatformMode' = getPlatformMode]_vars

C31_Witness ==
  /\ response.n > 0 /\ response.status = 403
  /\ response.token \in issued
  /\ response.path = "POST /mode"
  /\ teams # <<>>

\* The ids the polling client was handed.
Got == {got[i] : i \in DOMAIN got}

\* C37: a consumer polling getEvents(teamId, {since: the greatest createdAt
\* received so far}) skips no event of its team: an event whose createdAt
\* is not after the consumer's since, which no later poll returns, has been
\* received.
C37_NothingSkipped ==
  since # UNDEFINED =>
    \A i \in DOMAIN events :
      (events[i].team_id = "t1" /\ events[i].created_at <= since.str) =>
        events[i].id \in Got

\* C38: paging GET /api/events with a fixed limit and since = the last
\* nextSince never returns an event an earlier page returned.
C38_NoRepeat ==
  \A i, j \in DOMAIN got : i # j => got[i] # got[j]

\* C39: processedAt is never cleared, and getDueEvents never returns an
\* event that markAsProcessed was called on, whatever replays, chaos
\* operations, further markAsProcessed calls and time came after.
C39_NeverDueAgain ==
  /\ [](returned.op = "getDueEvents" =>
         \A i \in DOMAIN returned.value : returned.value[i].id \notin marked)
  /\ [][\A i \in DOMAIN events :
          events[i].processed_at # NULL =>
            /\ i \in DOMAIN events'
            /\ events'[i].id = events[i].id
            /\ events'[i].processed_at # NULL]_vars

\* getDueEvents answers after an event whose delayedUntil has passed was
\* marked processed and a later operation stored a further event.
C39_Witness ==
  /\ returned.op = "getDueEvents"
  /\ Len(events) >= 2
  /\ \E i \in DOMAIN events :
       /\ events[i].id \in marked
       /\ IsDue_IgnoresProcessed(events[i], clock)
       /\ \E j \in DOMAIN events :
            j > i /\ json_extract(events[j].metadata, "replayOf") # NULL

====
